---- MODULE Spec2Model ----
(***************************************************************************)
(* Model of the document-to-record reconciliation pipeline of sdp-ocr-back *)
(* (ingestion routing, review transfer, field normalizers) and of the      *)
(* relational store it writes (customers, customers_review,                *)
(* customer_files).  Python strings are TLA+ strings; characters are read  *)
(* with SubSeq(s, i, i).                                                   *)
(***************************************************************************)
EXTENDS Integers, Sequences, FiniteSets, TLC

\* ------------------------------------------------------------------------
\* Python values
\* ------------------------------------------------------------------------

\* Python None / SQL NULL for string-valued fields
None == "<None>"

\* SQL NULL for an integer foreign key (AUTO_INCREMENT ids start at 1)
NullId == 0

\* truthiness of an optional string: `if value:`
Truthy(v) == v # None /\ v # ""

Char(s, i) == SubSeq(s, i, i)

Digits == {"0", "1", "2", "3", "4", "5", "6", "7", "8", "9"}

LowerLetters ==
    {"a", "b", "c", "d", "e", "f", "g", "h", "i", "j", "k", "l", "m",
     "n", "o", "p", "q", "r", "s", "t", "u", "v", "w", "x", "y", "z",
     "é", "è", "ë", "ï", "ô"}

\* str.lower() on one character
LowerMap ==
    "A" :> "a" @@ "B" :> "b" @@ "C" :> "c" @@ "D" :> "d" @@ "E" :> "e" @@
    "F" :> "f" @@ "G" :> "g" @@ "H" :> "h" @@ "I" :> "i" @@ "J" :> "j" @@
    "K" :> "k" @@ "L" :> "l" @@ "M" :> "m" @@ "N" :> "n" @@ "O" :> "o" @@
    "P" :> "p" @@ "Q" :> "q" @@ "R" :> "r" @@ "S" :> "s" @@ "T" :> "t" @@
    "U" :> "u" @@ "V" :> "v" @@ "W" :> "w" @@ "X" :> "x" @@ "Y" :> "y" @@
    "Z" :> "z" @@ "É" :> "é"

\* str.upper() on one character
UpperMap ==
    "a" :> "A" @@ "b" :> "B" @@ "c" :> "C" @@ "d" :> "D" @@ "e" :> "E" @@
    "f" :> "F" @@ "g" :> "G" @@ "h" :> "H" @@ "i" :> "I" @@ "j" :> "J" @@
    "k" :> "K" @@ "l" :> "L" @@ "m" :> "M" @@ "n" :> "N" @@ "o" :> "O" @@
    "p" :> "P" @@ "q" :> "Q" @@ "r" :> "R" @@ "s" :> "S" @@ "t" :> "T" @@
    "u" :> "U" @@ "v" :> "V" @@ "w" :> "W" @@ "x" :> "X" @@ "y" :> "Y" @@
    "z" :> "Z" @@ "é" :> "É"

LowerChar(c) == IF c \in DOMAIN LowerMap THEN LowerMap[c] ELSE c

UpperChar(c) == IF c \in DOMAIN UpperMap THEN UpperMap[c] ELSE c

RECURSIVE lower(_)
lower(s) == IF s = "" THEN "" ELSE LowerChar(Head(s)) \o lower(Tail(s))

RECURSIVE upper(_)
upper(s) == IF s = "" THEN "" ELSE UpperChar(Head(s)) \o upper(Tail(s))

\* str.isalpha(): non-empty and every character is a letter
isalpha(s) ==
    /\ s # ""
    /\ \A i \in 1..Len(s) : Char(s, i) \in LowerLetters \cup DOMAIN LowerMap

RECURSIVE lstrip(_)
lstrip(s) == IF s # "" /\ Head(s) = " " THEN lstrip(Tail(s)) ELSE s

RECURSIVE rstrip(_)
rstrip(s) ==
    IF s # "" /\ Char(s, Len(s)) = " " THEN rstrip(SubSeq(s, 1, Len(s) - 1)) ELSE s

\* str.strip()
strip(s) == rstrip(lstrip(s))

\* `c in s` for a one-character c
Contains(s, c) == \E i \in 1..Len(s) : Char(s, i) = c

\* position of the last occurrence of c in s (0 when absent): str.rsplit(c, 1)
LastIndex(s, c) ==
    IF Contains(s, c)
    THEN CHOOSE i \in 1..Len(s) :
            /\ Char(s, i) = c
            /\ \A j \in (i + 1)..Len(s) : Char(s, j) # c
    ELSE 0

\* position of the first occurrence of c in s (0 when absent): str.split(c)
FirstIndex(s, c) ==
    IF Contains(s, c)
    THEN CHOOSE i \in 1..Len(s) :
            /\ Char(s, i) = c
            /\ \A j \in 1..(i - 1) : Char(s, j) # c
    ELSE 0

\* str.replace(a, b) for one-character a
RECURSIVE replace(_, _, _)
replace(s, a, b) ==
    IF s = "" THEN ""
    ELSE (IF Head(s) = a THEN b ELSE Head(s)) \o replace(Tail(s), a, b)

\* `x in list`
InList(x, l) == \E i \in 1..Len(l) : l[i] = x

\* ------------------------------------------------------------------------
\* Phone format validator (PhoneValidator)
\* ------------------------------------------------------------------------

\* PHONE_RULES: 'format' is kept as its separator and its number of {} slots
PHONE_RULES ==
    "France" :> [min_digits |-> 10, max_digits |-> 10, sep |-> " ", slots |-> 5, chunk_sizes |-> <<2, 2, 2, 2, 2>>, chunk_sizes_10 |-> <<>>] @@
    "Belgique" :> [min_digits |-> 9, max_digits |-> 10, sep |-> " ", slots |-> 4, chunk_sizes |-> <<3, 2, 2, 2>>, chunk_sizes_10 |-> <<2, 2, 2, 2, 2>>] @@
    "Suisse" :> [min_digits |-> 9, max_digits |-> 10, sep |-> " ", slots |-> 4, chunk_sizes |-> <<3, 3, 2, 2>>, chunk_sizes_10 |-> <<>>] @@
    "États-Unis" :> [min_digits |-> 10, max_digits |-> 10, sep |-> "-", slots |-> 3, chunk_sizes |-> <<3, 3, 4>>, chunk_sizes_10 |-> <<>>] @@
    "Canada" :> [min_digits |-> 10, max_digits |-> 10, sep |-> "-", slots |-> 3, chunk_sizes |-> <<3, 3, 4>>, chunk_sizes_10 |-> <<>>] @@
    "Royaume-Uni" :> [min_digits |-> 10, max_digits |-> 11, sep |-> " ", slots |-> 3, chunk_sizes |-> <<4, 3, 4>>, chunk_sizes_10 |-> <<>>] @@
    "Allemagne" :> [min_digits |-> 10, max_digits |-> 11, sep |-> " ", slots |-> 3, chunk_sizes |-> <<3, 3, 4>>, chunk_sizes_10 |-> <<>>] @@
    "Espagne" :> [min_digits |-> 9, max_digits |-> 9, sep |-> " ", slots |-> 4, chunk_sizes |-> <<3, 2, 2, 2>>, chunk_sizes_10 |-> <<>>] @@
    "Italie" :> [min_digits |-> 9, max_digits |-> 10, sep |-> " ", slots |-> 3, chunk_sizes |-> <<3, 3, 3>>, chunk_sizes_10 |-> <<>>] @@
    "Portugal" :> [min_digits |-> 9, max_digits |-> 9, sep |-> " ", slots |-> 4, chunk_sizes |-> <<3, 2, 2, 2>>, chunk_sizes_10 |-> <<>>] @@
    "Pays-Bas" :> [min_digits |-> 9, max_digits |-> 10, sep |-> " ", slots |-> 3, chunk_sizes |-> <<2, 3, 4>>, chunk_sizes_10 |-> <<>>] @@
    "Maroc" :> [min_digits |-> 9, max_digits |-> 10, sep |-> " ", slots |-> 4, chunk_sizes |-> <<4, 2, 2, 2>>, chunk_sizes_10 |-> <<>>] @@
    "Algérie" :> [min_digits |-> 9, max_digits |-> 10, sep |-> " ", slots |-> 4, chunk_sizes |-> <<4, 2, 2, 2>>, chunk_sizes_10 |-> <<>>] @@
    "Tunisie" :> [min_digits |-> 8, max_digits |-> 8, sep |-> " ", slots |-> 3, chunk_sizes |-> <<2, 3, 3>>, chunk_sizes_10 |-> <<>>]

\* re.sub(r'[^\d]', '', phone)
RECURSIVE clean_phone_number(_)
clean_phone_number(phone) ==
    IF phone = "" THEN ""
    ELSE (IF Head(phone) \in Digits THEN Head(phone) ELSE "")
             \o clean_phone_number(Tail(phone))

\* the chunking loop of format_phone_number: a size that does not fit is skipped
RECURSIVE PhoneChunks(_, _, _, _, _)
PhoneChunks(digits, chunk_sizes, k, start, chunks) ==
    IF k > Len(chunk_sizes)
    THEN IF start < Len(digits)
         THEN IF Len(chunks) > 0
              THEN [chunks EXCEPT ![Len(chunks)] =
                       @ \o SubSeq(digits, start + 1, Len(digits))]
              ELSE <<SubSeq(digits, start + 1, Len(digits))>>
         ELSE chunks
    ELSE IF start + chunk_sizes[k] <= Len(digits)
         THEN PhoneChunks(digits, chunk_sizes, k + 1, start + chunk_sizes[k],
                  Append(chunks, SubSeq(digits, start + 1, start + chunk_sizes[k])))
         ELSE PhoneChunks(digits, chunk_sizes, k + 1, start, chunks)

\* sep.join(chunks[0:n])
RECURSIVE JoinFirst(_, _, _)
JoinFirst(chunks, n, sep) ==
    IF n = 0 THEN ""
    ELSE IF n = 1 THEN chunks[1]
    ELSE JoinFirst(chunks, n - 1, sep) \o sep \o chunks[n]

\* rules['format'].format(*chunks): surplus chunks are ignored, missing ones
\* raise IndexError and the bare except returns the raw digits
format_phone_number(digits, country) ==
    IF digits = "" \/ ~Truthy(country) THEN digits
    ELSE IF country \notin DOMAIN PHONE_RULES THEN digits
    ELSE LET rules == PHONE_RULES[country]
             chunk_sizes == IF country = "Belgique" /\ Len(digits) = 10
                            THEN rules.chunk_sizes_10
                            ELSE rules.chunk_sizes
             Format(chunks) ==
                 IF Len(chunks) >= rules.slots
                 THEN JoinFirst(chunks, rules.slots, rules.sep)
                 ELSE digits
         IN  Format(PhoneChunks(digits, chunk_sizes, 1, 0, <<>>))

\* was_modified decided against the cleaned digits, not against the input
validate_phone_number_vs_cleaned(phone, country) ==
    LET Validate(cleaned) ==
            IF cleaned = ""
            THEN [phone |-> None, was_modified |-> FALSE, error_type |-> None]
            ELSE IF ~Truthy(country) \/ country \notin DOMAIN PHONE_RULES
            THEN [phone |-> cleaned, was_modified |-> FALSE, error_type |-> "no_country"]
            ELSE LET rules == PHONE_RULES[country]
                     Formatted(formatted) ==
                         [phone |-> formatted, was_modified |-> (cleaned # formatted),
                          error_type |-> None]
                 IN  IF Len(cleaned) < rules.min_digits
                            \/ Len(cleaned) > rules.max_digits
                     THEN [phone |-> None, was_modified |-> FALSE,
                           error_type |-> "invalid_length"]
                     ELSE Formatted(format_phone_number(cleaned, country))
    IN  IF ~Truthy(phone)
        THEN [phone |-> None, was_modified |-> FALSE, error_type |-> None]
        ELSE Validate(clean_phone_number(phone))

\* PhoneValidator.validate_phone_number
\* returns [phone, was_modified, error_type]
validate_phone_number(phone, country) ==
    LET Validate(cleaned) ==
            IF cleaned = ""
            THEN [phone |-> None, was_modified |-> FALSE, error_type |-> None]
            ELSE IF ~Truthy(country)
            THEN [phone |-> cleaned, was_modified |-> FALSE, error_type |-> "no_country"]
            ELSE IF country \notin DOMAIN PHONE_RULES
            THEN [phone |-> cleaned, was_modified |-> FALSE, error_type |-> "no_country"]
            ELSE LET rules == PHONE_RULES[country]
                     Formatted(formatted) ==
                         [phone |-> formatted, was_modified |-> (phone # formatted),
                          error_type |-> None]
                 IN  IF Len(cleaned) < rules.min_digits
                            \/ Len(cleaned) > rules.max_digits
                     THEN [phone |-> None, was_modified |-> FALSE,
                           error_type |-> "invalid_length"]
                     ELSE Formatted(format_phone_number(cleaned, country))
    IN  IF ~Truthy(phone)
        THEN [phone |-> None, was_modified |-> FALSE, error_type |-> None]
        ELSE Validate(clean_phone_number(phone))

\* ------------------------------------------------------------------------
\* Levenshtein distance (EmailDomainCorrector / CountryCorrector, same code)
\* ------------------------------------------------------------------------

Min2(a, b) == IF a <= b THEN a ELSE b

SetMin(S) == CHOOSE x \in S : \A y \in S : x <= y

\* One pass of the inner loop: current_row for the character c1 of s1 at
\* (0-based) position i - 1.  With
\*   t[j] = min(insertions, substitutions)
\*        = min(previous_row[j + 1] + 1, previous_row[j] + (c1 != c2))
\* the loop's current_row[j] = min(t[j], current_row[j - 1] + 1), started at
\* current_row[0] = i, unfolds to min(i + j, min over k <= j of t[k] + j - k).
\* Rows are 1-based here: row[j + 1] is the code's row[j].
LevRow(c1, s2, previous_row, i) ==
    LET t == [j \in 1..Len(s2) |->
                 Min2(previous_row[j + 1] + 1,
                      previous_row[j] + (IF c1 # Char(s2, j) THEN 1 ELSE 0))]
    IN  [j \in 1..(Len(s2) + 1) |->
            SetMin({i + j - 1} \cup {t[k] + (j - 1 - k) : k \in 1..(j - 1)})] \o <<>>

\* outer loop: i is the 1-based index in s1
RECURSIVE LevRows(_, _, _, _)
LevRows(s1, s2, previous_row, i) ==
    IF i > Len(s1) THEN previous_row
    ELSE LET Continue(current_row) ==
                 IF Len(current_row) = Len(s2) + 1
                 THEN LevRows(s1, s2, current_row, i + 1)
                 ELSE current_row
         IN  Continue(LevRow(Char(s1, i), s2, previous_row, i))

LevOrdered(s1, s2) ==
    IF Len(s2) = 0 THEN Len(s1)
    ELSE LET first_row == [k \in 1..(Len(s2) + 1) |-> k - 1] \o <<>>
             Last(last_row) == last_row[Len(last_row)]
         IN  Last(LevRows(s1, s2, first_row, 1))

levenshtein_distance(s1, s2) ==
    IF Len(s1) < Len(s2) THEN LevOrdered(s2, s1) ELSE LevOrdered(s1, s2)

\* the best-match loop shared by suggest_domain, suggest_extension and
\* suggest_country: `distance <= max_distance and distance < best_distance`
\* keeps the first candidate of the list at the lowest distance.  The lists of
\* suggest_domain and suggest_extension are lowercase already, suggest_country
\* lowers each candidate.  Returns <<best_match, best_distance>>.
BestMatch(word, candidates, max_distance, best_match, best_distance) ==
    LET Best(distance) ==
            LET accepted == {k \in DOMAIN candidates :
                                distance[k] <= max_distance
                                    /\ distance[k] < best_distance}
            IN  IF accepted = {} THEN <<best_match, best_distance>>
                ELSE LET k == CHOOSE a \in accepted :
                                 \A b \in accepted :
                                     distance[a] < distance[b]
                                         \/ (distance[a] = distance[b] /\ a <= b)
                     IN  <<candidates[k], distance[k]>>
    IN  Best([k \in DOMAIN candidates |->
                 levenshtein_distance(word, lower(candidates[k]))] \o <<>>)

\* float('inf'), the initial best_distance of the best-match loops
Inf == 1000000

\* ------------------------------------------------------------------------
\* Country corrector (CountryCorrector)
\* ------------------------------------------------------------------------

COUNTRY_CODES ==
    "FR" :> "France" @@ "BE" :> "Belgique" @@ "CH" :> "Suisse" @@ "DE" :> "Allemagne" @@
    "IT" :> "Italie" @@ "ES" :> "Espagne" @@ "PT" :> "Portugal" @@ "GB" :> "Royaume-Uni" @@
    "UK" :> "Royaume-Uni" @@ "IE" :> "Irlande" @@ "NL" :> "Pays-Bas" @@ "LU" :> "Luxembourg" @@
    "AT" :> "Autriche" @@ "GR" :> "Grèce" @@ "PL" :> "Pologne" @@ "SE" :> "Suède" @@
    "NO" :> "Norvège" @@ "DK" :> "Danemark" @@ "FI" :> "Finlande" @@ "CZ" :> "République tchèque" @@
    "HU" :> "Hongrie" @@ "RO" :> "Roumanie" @@ "BG" :> "Bulgarie" @@ "HR" :> "Croatie" @@
    "SI" :> "Slovénie" @@ "SK" :> "Slovaquie" @@ "EE" :> "Estonie" @@ "LV" :> "Lettonie" @@
    "LT" :> "Lituanie" @@ "CY" :> "Chypre" @@ "MT" :> "Malte" @@ "US" :> "États-Unis" @@
    "USA" :> "États-Unis" @@ "CA" :> "Canada" @@ "MX" :> "Mexique" @@ "BR" :> "Brésil" @@
    "AR" :> "Argentine" @@ "CL" :> "Chili" @@ "CO" :> "Colombie" @@ "PE" :> "Pérou" @@
    "VE" :> "Venezuela" @@ "CN" :> "Chine" @@ "JP" :> "Japon" @@ "IN" :> "Inde" @@
    "KR" :> "Corée du Sud" @@ "TH" :> "Thaïlande" @@ "VN" :> "Vietnam" @@ "ID" :> "Indonésie" @@
    "MY" :> "Malaisie" @@ "SG" :> "Singapour" @@ "PH" :> "Philippines" @@ "PK" :> "Pakistan" @@
    "BD" :> "Bangladesh" @@ "AE" :> "Émirats arabes unis" @@ "SA" :> "Arabie saoudite" @@ "IL" :> "Israël" @@
    "TR" :> "Turquie" @@ "MA" :> "Maroc" @@ "DZ" :> "Algérie" @@ "TN" :> "Tunisie" @@
    "EG" :> "Égypte" @@ "ZA" :> "Afrique du Sud" @@ "NG" :> "Nigeria" @@ "KE" :> "Kenya" @@
    "GH" :> "Ghana" @@ "SN" :> "Sénégal" @@ "CI" :> "Côte d'Ivoire" @@ "AU" :> "Australie" @@
    "NZ" :> "Nouvelle-Zélande"

VALID_COUNTRIES ==
  <<
    "France", "Belgique", "Suisse", "Allemagne", "Italie",
    "Espagne", "Portugal", "Royaume-Uni", "Irlande", "Pays-Bas",
    "Luxembourg", "Autriche", "Grèce", "Pologne", "Suède",
    "Norvège", "Danemark", "Finlande", "République tchèque", "Hongrie",
    "Roumanie", "Bulgarie", "Croatie", "Slovénie", "Slovaquie",
    "Estonie", "Lettonie", "Lituanie", "Chypre", "Malte",
    "États-Unis", "Canada", "Mexique", "Brésil", "Argentine",
    "Chili", "Colombie", "Pérou", "Venezuela", "Chine",
    "Japon", "Inde", "Corée du Sud", "Thaïlande", "Vietnam",
    "Indonésie", "Malaisie", "Singapour", "Philippines", "Pakistan",
    "Bangladesh", "Émirats arabes unis", "Arabie saoudite", "Israël", "Turquie",
    "Maroc", "Algérie", "Tunisie", "Égypte", "Afrique du Sud",
    "Nigeria", "Kenya", "Ghana", "Sénégal", "Côte d'Ivoire",
    "Australie", "Nouvelle-Zélande"
  >>

COUNTRY_VARIANTS ==
    "united states" :> "États-Unis" @@ "united states of america" :> "États-Unis" @@
    "usa" :> "États-Unis" @@ "united kingdom" :> "Royaume-Uni" @@
    "great britain" :> "Royaume-Uni" @@ "england" :> "Royaume-Uni" @@
    "scotland" :> "Royaume-Uni" @@ "wales" :> "Royaume-Uni" @@
    "netherlands" :> "Pays-Bas" @@ "holland" :> "Pays-Bas" @@
    "germany" :> "Allemagne" @@ "spain" :> "Espagne" @@
    "italy" :> "Italie" @@ "switzerland" :> "Suisse" @@
    "belgium" :> "Belgique" @@ "austria" :> "Autriche" @@
    "portugal" :> "Portugal" @@ "greece" :> "Grèce" @@
    "poland" :> "Pologne" @@ "sweden" :> "Suède" @@
    "norway" :> "Norvège" @@ "denmark" :> "Danemark" @@
    "finland" :> "Finlande" @@ "czech republic" :> "République tchèque" @@
    "hungary" :> "Hongrie" @@ "romania" :> "Roumanie" @@
    "bulgaria" :> "Bulgarie" @@ "croatia" :> "Croatie" @@
    "slovenia" :> "Slovénie" @@ "slovakia" :> "Slovaquie" @@
    "china" :> "Chine" @@ "japan" :> "Japon" @@
    "india" :> "Inde" @@ "south korea" :> "Corée du Sud" @@
    "thailand" :> "Thaïlande" @@ "vietnam" :> "Vietnam" @@
    "indonesia" :> "Indonésie" @@ "malaysia" :> "Malaisie" @@
    "singapore" :> "Singapour" @@ "philippines" :> "Philippines" @@
    "australia" :> "Australie" @@ "new zealand" :> "Nouvelle-Zélande" @@
    "brazil" :> "Brésil" @@ "argentina" :> "Argentine" @@
    "canada" :> "Canada" @@ "mexico" :> "Mexique" @@
    "morocco" :> "Maroc" @@ "algeria" :> "Algérie" @@
    "tunisia" :> "Tunisie" @@ "egypt" :> "Égypte" @@
    "south africa" :> "Afrique du Sud" @@ "etats-unis" :> "États-Unis" @@
    "etats unis" :> "États-Unis" @@ "royaume uni" :> "Royaume-Uni" @@
    "pays bas" :> "Pays-Bas" @@ "emirats arabes unis" :> "Émirats arabes unis" @@
    "arabie saoudite" :> "Arabie saoudite" @@ "coree du sud" :> "Corée du Sud" @@
    "afrique du sud" :> "Afrique du Sud" @@ "nouvelle zelande" :> "Nouvelle-Zélande" @@
    "nouvelle-zelande" :> "Nouvelle-Zélande" @@ "republique tcheque" :> "République tchèque"

normalize_country_code(country) ==
    LET country_upper == strip(upper(country)) IN
    IF country_upper \in DOMAIN COUNTRY_CODES THEN COUNTRY_CODES[country_upper] ELSE None

normalize_country_variant(country) ==
    LET country_lower == strip(lower(country)) IN
    IF country_lower \in DOMAIN COUNTRY_VARIANTS
    THEN COUNTRY_VARIANTS[country_lower] ELSE None

suggest_country(country) ==
    IF InList(country, VALID_COUNTRIES) THEN None
    ELSE BestMatch(strip(lower(country)), VALID_COUNTRIES, 2, None, Inf)[1]

\* correct_country with the typo step tried before the code and variant steps
correct_country_typo_first(country) ==
    IF ~Truthy(country) THEN [country |-> country, was_corrected |-> FALSE]
    ELSE LET country_stripped == strip(country)
             Suggested(suggested) ==
                 IF InList(country_stripped, VALID_COUNTRIES)
                 THEN [country |-> country_stripped, was_corrected |-> FALSE]
                 ELSE IF Truthy(suggested)
                 THEN [country |-> suggested, was_corrected |-> TRUE]
                 ELSE IF /\ Len(country_stripped) <= 3
                         /\ isalpha(country_stripped)
                         /\ Truthy(normalize_country_code(country_stripped))
                 THEN [country |-> normalize_country_code(country_stripped),
                       was_corrected |-> TRUE]
                 ELSE IF Truthy(normalize_country_variant(country_stripped))
                 THEN [country |-> normalize_country_variant(country_stripped),
                       was_corrected |-> TRUE]
                 ELSE [country |-> country_stripped, was_corrected |-> FALSE]
         IN  Suggested(suggest_country(country_stripped))

\* returns [country, was_corrected]
correct_country(country) ==
    IF ~Truthy(country) THEN [country |-> country, was_corrected |-> FALSE]
    ELSE LET country_stripped == strip(country) IN
         IF InList(country_stripped, VALID_COUNTRIES)
         THEN [country |-> country_stripped, was_corrected |-> FALSE]
         ELSE IF /\ Len(country_stripped) <= 3
                 /\ isalpha(country_stripped)
                 /\ Truthy(normalize_country_code(country_stripped))
         THEN [country |-> normalize_country_code(country_stripped),
               was_corrected |-> TRUE]
         ELSE IF Truthy(normalize_country_variant(country_stripped))
         THEN [country |-> normalize_country_variant(country_stripped),
               was_corrected |-> TRUE]
         ELSE LET Suggested(suggested) ==
                      IF Truthy(suggested)
                      THEN [country |-> suggested, was_corrected |-> TRUE]
                      ELSE [country |-> country_stripped, was_corrected |-> FALSE]
              IN  Suggested(suggest_country(country_stripped))

\* ------------------------------------------------------------------------
\* Email domain corrector (EmailDomainCorrector)
\* ------------------------------------------------------------------------

POPULAR_EXTENSIONS ==
  <<
    "com", "fr", "net", "org", "eu", "be", "ch",
    "de", "uk", "it", "es", "ca", "co.uk", "com.fr"
  >>

POPULAR_DOMAINS ==
  <<
    "gmail.com", "googlemail.com", "hotmail.com", "hotmail.fr",
    "outlook.com", "outlook.fr", "live.com", "live.fr",
    "msn.com", "yahoo.com", "yahoo.fr", "ymail.com",
    "orange.fr", "wanadoo.fr", "free.fr", "sfr.fr",
    "neuf.fr", "icloud.com", "me.com", "mac.com",
    "protonmail.com", "proton.me", "laposte.net", "aol.com"
  >>

is_likely_typo(domain, suggested_domain, distance) ==
    IF distance = 1 THEN TRUE
    ELSE IF Contains(domain, "-") THEN FALSE
    ELSE IF Len(domain) > 20 THEN FALSE
    ELSE IF distance <= 2 THEN TRUE
    ELSE FALSE

suggest_domain(domain) ==
    LET Suggest(domain_lower) ==
            LET Likely(best) ==
                    IF Truthy(best[1]) /\ is_likely_typo(domain_lower, best[1], best[2])
                    THEN best[1] ELSE None
            IN  IF InList(domain_lower, POPULAR_DOMAINS) THEN None
                ELSE Likely(BestMatch(domain_lower, POPULAR_DOMAINS, 2, None, Inf))
    IN  Suggest(strip(lower(domain)))

suggest_extension(extension) ==
    LET Suggest(extension_lower) ==
            IF InList(extension_lower, POPULAR_EXTENSIONS) THEN None
            ELSE BestMatch(extension_lower, POPULAR_EXTENSIONS, 1, None, Inf)[1]
    IN  Suggest(strip(lower(extension)))

\* returns <<email, was_corrected>>
fix_punctuation(email) ==
    IF ~Contains(email, "@") THEN <<email, FALSE>>
    ELSE LET at         == LastIndex(email, "@")
             local_part == SubSeq(email, 1, at - 1)
             domain     == SubSeq(email, at + 1, Len(email))
             fixed      == replace(replace(replace(domain, ",", "."), ";", "."), ":", ".")
         IN  IF fixed # domain THEN <<local_part \o "@" \o fixed, TRUE>>
             ELSE <<email, FALSE>>

\* original_email.split('@')[1]: the text between the first and the second '@'
OriginalDomain(original_email) ==
    LET rest == SubSeq(original_email, FirstIndex(original_email, "@") + 1,
                       Len(original_email))
    IN  IF Contains(rest, "@") THEN SubSeq(rest, 1, FirstIndex(rest, "@") - 1) ELSE rest

\* returns [email, was_corrected, original_domain]
correct_email(email) ==
    LET punct == fix_punctuation(email)
        email1 == punct[1]
    IN
    IF ~Contains(email1, "@")
    THEN [email |-> email1, was_corrected |-> punct[2], original_domain |-> None]
    ELSE LET at         == LastIndex(email1, "@")
             local_part == SubSeq(email1, 1, at - 1)
             domain1    == SubSeq(email1, at + 1, Len(email1))
             dot        == LastIndex(domain1, ".")
             \* 2. the extension, then 3. the domain
             Extension(suggested_extension) ==
                 LET ext_corrected == Truthy(suggested_extension)
                     domain2    == IF ext_corrected
                                   THEN SubSeq(domain1, 1, dot - 1) \o "."
                                            \o suggested_extension
                                   ELSE domain1
                     email2     == IF ext_corrected THEN local_part \o "@" \o domain2
                                   ELSE email1
                     was_corrected == punct[2] \/ ext_corrected
                     Domain(suggested_domain) ==
                         IF Truthy(suggested_domain)
                         THEN [email |-> local_part \o "@" \o suggested_domain,
                               was_corrected |-> TRUE,
                               original_domain |-> OriginalDomain(email)]
                         ELSE IF was_corrected
                         THEN [email |-> email2, was_corrected |-> TRUE,
                               original_domain |-> OriginalDomain(email)]
                         ELSE [email |-> email2, was_corrected |-> FALSE,
                               original_domain |-> None]
                 IN  Domain(suggest_domain(domain2))
         IN  Extension(IF dot > 0
                       THEN suggest_extension(SubSeq(domain1, dot + 1, Len(domain1)))
                       ELSE None)

\* ------------------------------------------------------------------------
\* External services, reduced to the answer they give
\* ------------------------------------------------------------------------

\* EmailDomainValidator.verify_email_domain; has_mx is the DNS answer
verify_email_domain(email, has_mx) ==
    IF ~Contains(email, "@") THEN "False"
    ELSE LET rest   == SubSeq(email, FirstIndex(email, "@") + 1, Len(email))
             domain == strip(lower(IF Contains(rest, "@")
                                   THEN SubSeq(rest, 1, FirstIndex(rest, "@") - 1)
                                   ELSE rest))
         IN  IF domain = "" THEN "False" ELSE has_mx

\* EmailValidatorService.validate_email_sync; deliverable is the API answer
\* ("False" also stands for every API error)
validate_email_sync(email, deliverable) ==
    IF ~Truthy(email) \/ ~Contains(email, "@") THEN "False" ELSE deliverable

\* PhoneIntelligenceValidator.verify_phone_number; valid is the API answer,
\* None for an error, a timeout or a non-200 status
verify_phone_number(phone, valid) ==
    IF ~Truthy(phone) THEN None
    ELSE LET cleaned_phone ==
                 replace(replace(replace(replace(replace(phone,
                     " ", ""), "-", ""), "(", ""), ")", ""), "+", "")
         IN  IF cleaned_phone = "" THEN None ELSE valid

\* ------------------------------------------------------------------------
\* Reconciliation service (CustomerBusinessService)
\* ------------------------------------------------------------------------

safe_strip(value) ==
    IF value = None THEN None
    ELSE IF strip(value) = "" THEN None ELSE strip(value)

\* the phone validated under the country as extracted, before its correction
phone_validation_raw_country(phone, raw_country, country) ==
    validate_phone_number(phone, raw_country)

\* the phone validation of _map_ocr_to_customer: the validator is called after
\* the country corrector and receives the corrected country
phone_validation(phone, raw_country, country) ==
    validate_phone_number(phone, country)

\* _map_ocr_to_customer: returns [customer_data, was_email_corrected, phone_error]
\* svc = [has_mx, deliverable, phone_valid] are the answers of the three services
map_ocr_to_customer(extracted_data, svc) ==
    LET email0   == safe_strip(extracted_data.email)
        country0 == safe_strip(extracted_data.pays)
        phone0   == safe_strip(extracted_data.tel)
        Mapped(correction, country, validated) ==
            LET was_email_corrected == correction.was_corrected
                email == IF was_email_corrected THEN correction.email ELSE email0
                verified_domain ==
                    IF Truthy(email) THEN verify_email_domain(email, svc.has_mx)
                    ELSE None
                verified_email ==
                    IF Truthy(email) THEN validate_email_sync(email, svc.deliverable)
                    ELSE None
                phone_error ==
                    IF ~Truthy(phone0) THEN None
                    ELSE IF validated.error_type = "invalid_length"
                    THEN "Erreur - Numéro"
                    ELSE IF validated.was_modified THEN "Modifié"
                    ELSE None
                phone ==
                    IF ~Truthy(phone0) THEN phone0
                    ELSE IF validated.error_type = "invalid_length"
                    THEN validated.phone
                    ELSE IF validated.was_modified THEN validated.phone
                    ELSE IF Truthy(validated.phone) THEN validated.phone ELSE phone0
                verified_phone ==
                    IF Truthy(phone) THEN verify_phone_number(phone, svc.phone_valid)
                    ELSE None
            IN  [customer_data |->
                    [first_name      |-> safe_strip(extracted_data.prenom),
                     last_name       |-> safe_strip(extracted_data.nom),
                     email           |-> email,
                     phone           |-> phone,
                     job             |-> safe_strip(extracted_data.profession),
                     city            |-> safe_strip(extracted_data.ville),
                     country         |-> country,
                     reference       |-> safe_strip(extracted_data.identifiant),
                     date            |-> safe_strip(extracted_data.date),
                     verified_email  |-> verified_email,
                     verified_domain |-> verified_domain,
                     verified_phone  |-> verified_phone],
                 was_email_corrected |-> was_email_corrected,
                 phone_error         |-> phone_error]
        \* the country is corrected before the phone is validated with it
        Country(correction, country) ==
            Mapped(correction, country,
                   phone_validation(phone0, country0, country))
    IN  Country(IF Truthy(email0) THEN correct_email(email0)
                ELSE [email |-> email0, was_corrected |-> FALSE,
                      original_domain |-> None],
                IF Truthy(country0) THEN correct_country(country0).country
                ELSE country0)

\* the phone tested only when the email does not match (`elif`)
check_duplicate_type_elif(email, phone, email_exists, phone_exists) ==
    IF ~Truthy(email) /\ ~Truthy(phone) THEN None
    ELSE IF Truthy(email) /\ email_exists THEN "Doublon - Mail"
    ELSE IF Truthy(phone) /\ phone_exists THEN "Doublon - Phone"
    ELSE None

\* _check_duplicate_type, given the answers of the two duplicate queries
check_duplicate_type(email, phone, email_exists, phone_exists) ==
    IF ~Truthy(email) /\ ~Truthy(phone) THEN None
    ELSE LET mail_dup  == Truthy(email) /\ email_exists
             phone_dup == Truthy(phone) /\ phone_exists
         IN  IF mail_dup /\ phone_dup THEN "Doublon - Mail et Phone"
             ELSE IF mail_dup THEN "Doublon - Mail"
             ELSE IF phone_dup THEN "Doublon - Phone"
             ELSE None

\* a missing `return` after the review creates: the candidate falls through to
\* crud_customer.create as well
route_inserts_fall_through(mapped, duplicate_type) ==
    (IF Truthy(mapped.phone_error)
     THEN <<[table |-> "customer_review", type |-> mapped.phone_error]>>
     ELSE IF mapped.was_email_corrected
     THEN <<[table |-> "customer_review", type |-> "Modifié"]>>
     ELSE IF Truthy(duplicate_type)
     THEN <<[table |-> "customer_review", type |-> duplicate_type]>>
     ELSE <<>>)
    \o <<[table |-> "customer", type |-> None]>>

\* the corrected email tested before the phone error
route_inserts_email_first(mapped, duplicate_type) ==
    IF mapped.was_email_corrected
    THEN <<[table |-> "customer_review", type |-> "Modifié"]>>
    ELSE IF Truthy(mapped.phone_error)
    THEN <<[table |-> "customer_review", type |-> mapped.phone_error]>>
    ELSE IF Truthy(duplicate_type)
    THEN <<[table |-> "customer_review", type |-> duplicate_type]>>
    ELSE <<[table |-> "customer", type |-> None]>>

\* a candidate with neither email nor phone sent to review instead of being
\* inserted as an empty customer
route_inserts_identity_required(mapped, duplicate_type) ==
    IF Truthy(mapped.phone_error)
    THEN <<[table |-> "customer_review", type |-> mapped.phone_error]>>
    ELSE IF mapped.was_email_corrected
    THEN <<[table |-> "customer_review", type |-> "Modifié"]>>
    ELSE IF Truthy(duplicate_type)
    THEN <<[table |-> "customer_review", type |-> duplicate_type]>>
    ELSE IF ~Truthy(mapped.customer_data.email) /\ ~Truthy(mapped.customer_data.phone)
    THEN <<[table |-> "customer_review", type |-> None]>>
    ELSE <<[table |-> "customer", type |-> None]>>

\* the inserts insert_customer_if_not_exists performs, in order, as
\* [table, type] records: every branch returns right after its create
route_inserts(mapped, duplicate_type) ==
    IF Truthy(mapped.phone_error)
    THEN <<[table |-> "customer_review", type |-> mapped.phone_error]>>
    ELSE IF mapped.was_email_corrected
    THEN <<[table |-> "customer_review", type |-> "Modifié"]>>
    ELSE IF Truthy(duplicate_type)
    THEN <<[table |-> "customer_review", type |-> duplicate_type]>>
    ELSE <<[table |-> "customer", type |-> None]>>

\* ------------------------------------------------------------------------
\* Bounds and inputs
\* ------------------------------------------------------------------------

\* calls of insert_customer_if_not_exists in one behaviour
MaxIngest == 2

\* calls of crud_customer_file.create in one behaviour
MaxFiles == 2

\* calls of transfer_to_customers in one behaviour
MaxTransfer == 2

EmailInputs == {None, "anne@gmail.com", " anne@gmil.com"}

TelInputs == {None, "0612345678", "06 12 34 56 78", "061234"}

\* the fields of a form other than email and tel
FormInputs ==
    { [pays |-> None, prenom |-> None, nom |-> None, profession |-> None,
       ville |-> None, identifiant |-> None, date |-> None],
      [pays |-> "FR", prenom |-> " Anne ", nom |-> "Dupont", profession |-> "",
       ville |-> "Paris", identifiant |-> "202201005", date |-> "01/02/2022"] }

ExtractedData(email, tel, form) ==
    [email |-> email, tel |-> tel, pays |-> form.pays, prenom |-> form.prenom,
     nom |-> form.nom, profession |-> form.profession, ville |-> form.ville,
     identifiant |-> form.identifiant, date |-> form.date]

Candidates ==
    {ExtractedData(e, t, f) : e \in EmailInputs, t \in TelInputs, f \in FormInputs}

\* answers of the MX lookup, the deliverability API and the phone API
ServiceAnswers ==
    { [has_mx |-> "True",  deliverable |-> "True",  phone_valid |-> "True"],
      [has_mx |-> "False", deliverable |-> "False", phone_valid |-> None] }

\* the one store statement (or the connection) that fails during a call
IngestFaults == {"none", "connection", "check_email", "check_phone", "insert"}

\* a statement can fail only in a call that executes it
IngestFaultApplies(fault, mapped) ==
    LET checks == ~Truthy(mapped.phone_error) /\ ~mapped.was_email_corrected IN
    CASE fault = "check_email" -> checks /\ Truthy(mapped.customer_data.email)
      [] fault = "check_phone" -> checks /\ Truthy(mapped.customer_data.phone)
      [] OTHER -> TRUE

\* _map_ocr_to_customer on every input of the model, computed once
MappedTable ==
    [c \in Candidates, s \in ServiceAnswers |-> map_ocr_to_customer(c, s)]

\* the phone validation of _map_ocr_to_customer on every input of the model:
\* validate_phone_number(raw phone, corrected country), run for a phone only
PhoneValidationTable ==
    [c \in Candidates |->
        LET country0 == safe_strip(c.pays)
            phone0   == safe_strip(c.tel)
        IN  IF Truthy(phone0)
            THEN validate_phone_number(phone0,
                     IF Truthy(country0) THEN correct_country(country0).country
                     ELSE country0)
            ELSE [phone |-> None, was_modified |-> FALSE, error_type |-> None]]

\* the email correction of _map_ocr_to_customer on every input of the model:
\* correct_email(raw email), run for an email only
EmailCorrectionTable ==
    [c \in Candidates |->
        LET email0 == safe_strip(c.email)
        IN  IF Truthy(email0) THEN correct_email(email0)
            ELSE [email |-> email0, was_corrected |-> FALSE,
                  original_domain |-> None]]

\* ------------------------------------------------------------------------
\* The relational store and the calls made on it
\* ------------------------------------------------------------------------

VARIABLES
    customers,          \* table customers: id -> row
    customers_review,   \* table customers_review: id -> row (with its type)
    customer_files,     \* table customer_files: id -> row
    next_id,            \* AUTO_INCREMENT counter of each table
    calls,              \* number of calls made so far, per operation
    last,               \* the last completed call: arguments, outcome, result
    pre,                \* the three tables as they were before the last transfer
    proc,               \* the concurrent ingestions: position and locals of each
    batch,              \* the document being processed page by page, and its result
    call                \* the call of a normalizer: function, arguments, result

vars == <<customers, customers_review, customer_files, next_id, calls, last, pre, proc,
          batch, call>>

Workers == {1, 2}

IdleProc == [pc |-> "idle"]

\* the store as created, no request being served
EmptyStore ==
    /\ customers = <<>>
    /\ customers_review = <<>>
    /\ customer_files = <<>>
    /\ next_id = [customers |-> 1, customers_review |-> 1, customer_files |-> 1]
    /\ calls = [ingest |-> 0, file |-> 0, transfer |-> 0, update |-> 0, delete |-> 0]
    /\ last = [op |-> "none"]
    /\ pre = <<>>
    /\ proc = [w \in Workers |-> IdleProc]

Init ==
    /\ EmptyStore
    /\ batch = [endpoint |-> "none"]
    /\ call = [fn |-> "none"]

\* clean_data of crud_customer.create / crud_customer_review.create: a column
\* whose value is None or "" is left out of the INSERT and stays NULL
clean_data(customer_data) ==
    [k \in DOMAIN customer_data |->
        IF customer_data[k] # None /\ customer_data[k] # ""
        THEN customer_data[k] ELSE None]

\* crud_customer.check_duplicate_email: `WHERE email = %s LIMIT 1` matches no
\* row for a NULL parameter; a failing query answers False
check_duplicate_email(table, email, query_fails) ==
    IF query_fails THEN FALSE
    ELSE email # None /\ \E id \in DOMAIN table : table[id].email = email

\* crud_customer.check_duplicate_phone: `WHERE phone = %s LIMIT 1` matches no
\* row for a NULL parameter; a failing query answers False
check_duplicate_phone(table, phone, query_fails) ==
    IF query_fails THEN FALSE
    ELSE phone # None /\ \E id \in DOMAIN table : table[id].phone = phone

\* the tables after the inserts of one ingestion, applied in order:
\* crud_customer.create / crud_customer_review.create
RECURSIVE apply_inserts(_, _, _)
apply_inserts(inserts, customer_data, tables) ==
    IF inserts = <<>> THEN tables
    ELSE LET ins == Head(inserts)
             after ==
                 IF ins.table = "customer"
                 THEN [tables EXCEPT
                          !.customers = @ @@ (tables.next_id.customers :>
                                                 clean_data(customer_data)),
                          !.next_id.customers = @ + 1,
                          !.ret_id = tables.next_id.customers]
                 ELSE [tables EXCEPT
                          !.customers_review =
                              @ @@ (tables.next_id.customers_review :>
                                       (clean_data(customer_data)
                                            @@ [type |-> ins.type])),
                          !.next_id.customers_review = @ + 1,
                          !.ret_id = tables.next_id.customers_review]
         IN  apply_inserts(Tail(inserts), customer_data,
                           [after EXCEPT !.ret_type = ins.table])

\* the body of insert_customer_if_not_exists once the candidate is mapped:
\* the duplicate queries, the branch taken and its create.  Returns the
\* tables and the result (ret_id, ret_type).
ingest_result(mapped, fault) ==
    LET customer_data == mapped.customer_data
        before == [customers |-> customers, customers_review |-> customers_review,
                   next_id |-> next_id, ret_id |-> NullId, ret_type |-> "error"]
        Create(inserts) ==
            IF fault = "insert"
            THEN [before EXCEPT !.ret_type = inserts[Len(inserts)].table]
            ELSE apply_inserts(inserts, customer_data, before)
    IN  IF fault = "connection" THEN before
        ELSE Create(route_inserts(mapped,
                 IF Truthy(customer_data.email) \/ Truthy(customer_data.phone)
                 THEN check_duplicate_type(customer_data.email, customer_data.phone,
                          check_duplicate_email(customers, customer_data.email,
                                                fault = "check_email"),
                          check_duplicate_phone(customers, customer_data.phone,
                                                fault = "check_phone"))
                 ELSE None))

\* CustomerBusinessService.insert_customer_if_not_exists(extracted_data)
insert_customer_if_not_exists(extracted_data, svc, fault) ==
    /\ calls.ingest < MaxIngest
    /\ \A w \in Workers : proc[w].pc = "idle"
    /\ \E mapped \in {MappedTable[extracted_data, svc]} :
          /\ IngestFaultApplies(fault, mapped)
          /\ \E after \in {ingest_result(mapped, fault)} :
                /\ customers' = after.customers
                /\ customers_review' = after.customers_review
                /\ next_id' = after.next_id
                /\ last' = [op |-> "ingest",
                            extracted_data |-> extracted_data,
                            fault |-> fault,
                            mapped |-> mapped,
                            email_exists |->
                                check_duplicate_email(customers,
                                    mapped.customer_data.email, FALSE),
                            phone_exists |->
                                check_duplicate_phone(customers,
                                    mapped.customer_data.phone, FALSE),
                            customers_before |-> DOMAIN customers,
                            reviews_before |-> DOMAIN customers_review,
                            ret_id |-> after.ret_id,
                            ret_type |-> after.ret_type]
    /\ calls' = [calls EXCEPT !.ingest = @ + 1]
    /\ UNCHANGED <<batch, call, customer_files, pre, proc>>

Ingest ==
    \E c \in Candidates, svc \in ServiceAnswers, fault \in IngestFaults :
        insert_customer_if_not_exists(c, svc, fault)

\* ------------------------------------------------------------------------
\* File attachments and the transfer of a review record
\* ------------------------------------------------------------------------

\* the candidates ingested when the store operations are explored
StoreCandidates ==
    {c \in Candidates :
        \/ c.email # None /\ c.tel = None /\ c.pays = "FR"
        \/ c.email = None /\ c.tel = "0612345678" /\ c.pays = "FR"
        \/ c.email = None /\ c.tel = None /\ c.pays = None}

StoreIngest ==
    \E c \in StoreCandidates, svc \in ServiceAnswers :
        insert_customer_if_not_exists(c, svc, "none")

\* FileStorageService.save_pdf_and_images: the path of a stored file
stored_path(customer_id, filename) ==
    IF customer_id # NullId
    THEN "customers/" \o ToString(customer_id) \o "/" \o filename
    ELSE "pending/" \o filename

\* crud_customer_file.create(file_data), for a file stored for an existing
\* customer (customer_review_id NULL) or for an existing review record
\* (customer_id NULL, file kept in the pending directory)
create_customer_file(customer_id, customer_review_id) ==
    LET file_id  == next_id.customer_files
        filename == "f" \o ToString(file_id) \o ".pdf"
    IN  /\ calls.file < MaxFiles
        /\ \A w \in Workers : proc[w].pc = "idle"
        /\ \/ customer_id \in DOMAIN customers /\ customer_review_id = NullId
           \/ customer_review_id \in DOMAIN customers_review /\ customer_id = NullId
        /\ customer_files' = customer_files @@
               (file_id :> [customer_id |-> customer_id,
                            customer_review_id |-> customer_review_id,
                            file_path |-> stored_path(customer_id, filename)])
        /\ next_id' = [next_id EXCEPT !.customer_files = @ + 1]
        /\ calls' = [calls EXCEPT !.file = @ + 1]
        /\ last' = [op |-> "create_file", file_id |-> file_id]
        /\ UNCHANGED <<batch, call, customers, customers_review, pre, proc>>

CreateFile ==
    \E customer_id \in {NullId} \cup DOMAIN customers,
       customer_review_id \in {NullId} \cup DOMAIN customers_review :
        create_customer_file(customer_id, customer_review_id)

\* 'pending' in old_path
contains_pending(path) ==
    \E i \in 1..(Len(path) - 6) : SubSeq(path, i, i + 6) = "pending"

\* os.path.basename
basename(path) == SubSeq(path, LastIndex(path, "/") + 1, Len(path))

\* FileStorageService.move_file_to_customer: the new relative path
move_file_to_customer(temp_relative_path, customer_id) ==
    "customers/" \o ToString(customer_id) \o "/" \o basename(temp_relative_path)

\* crud_customer_file.transfer_files_to_customer: the UPDATE, or nothing when
\* it raises (the function then returns False)
transfer_files_to_customer(files, customer_review_id, customer_id, update_fails) ==
    IF update_fails THEN files
    ELSE [f \in DOMAIN files |->
             IF files[f].customer_review_id = customer_review_id
             THEN [files[f] EXCEPT !.customer_id = customer_id,
                                   !.customer_review_id = NullId]
             ELSE files[f]]

\* the loop that moves the listed files out of the pending directory and
\* updates their path; an exception of move_file_to_customer is caught per
\* file, a failing crud_customer_file.update returns False
move_listed_files(files, listed, customer_id, fault) ==
    [f \in DOMAIN files |->
        IF /\ f \in listed
           /\ contains_pending(files[f].file_path)
           /\ fault \notin {"move_file", "update_file"}
        THEN [files[f] EXCEPT
                 !.file_path = move_file_to_customer(files[f].file_path, customer_id)]
        ELSE files[f]]

\* the statement of transfer_to_customers that fails during a call
TransferFaults ==
    {"none", "select_review", "select_customer", "insert", "transfer_files",
     "get_files", "move_file", "update_file", "delete"}

\* the customers row built from a review row: every column but id,
\* created_at, updated_at and type, None and "" left out
promoted_row(review_data) ==
    clean_data([k \in DOMAIN review_data \ {"type"} |-> review_data[k]])

\* a DELETE that removes no row
delete_row_none(table, id) == table

\* DELETE FROM customers_review WHERE id = %s
delete_row(table, id) == [r \in DOMAIN table \ {id} |-> table[r]]

\* crud_customer_review.transfer_to_customers(connection, review_id) on a
\* connection opened with autocommit=True: every statement is committed when
\* it is executed and connection.rollback() undoes nothing.
\* existing is the row `SELECT id FROM customers WHERE email = %s LIMIT 1`
\* returns when several rows match.  Returns the tables and the result.
transfer_result(review_id, fault, existing) ==
    LET unchanged == [customers |-> customers, customers_review |-> customers_review,
                      customer_files |-> customer_files, next_id |-> next_id,
                      ret_id |-> NullId, path |-> "error"]
    IN
    IF fault = "select_review" THEN unchanged
    ELSE IF review_id \notin DOMAIN customers_review
    THEN [unchanged EXCEPT !.path = "not_found"]
    ELSE
    LET review_data == customers_review[review_id]
        email == review_data.email
    IN
    IF Truthy(email) /\ fault = "select_customer" THEN unchanged
    ELSE IF existing # NullId
    THEN \* 3a. merge with the existing customer
         LET files1 == transfer_files_to_customer(customer_files, review_id, existing,
                                                  fault = "transfer_files")
             listed == IF fault = "get_files" THEN {}
                       ELSE {f \in DOMAIN files1 :
                                files1[f].customer_review_id = review_id}
             files2 == move_listed_files(files1, listed, existing, fault)
         IN  IF fault = "delete"
             THEN [unchanged EXCEPT !.customer_files = files2]
             ELSE [unchanged EXCEPT !.customer_files = files2,
                                    !.customers_review = delete_row(@, review_id),
                                    !.ret_id = existing,
                                    !.path = "merge"]
    ELSE \* 3b. create a new customer
         IF fault = "insert" THEN unchanged
         ELSE
         LET customer_id == next_id.customers
             customers1 == customers @@ (customer_id :> promoted_row(review_data))
             files1 == transfer_files_to_customer(customer_files, review_id, customer_id,
                                                  fault = "transfer_files")
             listed == IF fault = "get_files" THEN {}
                       ELSE {f \in DOMAIN files1 : files1[f].customer_id = customer_id}
             files2 == move_listed_files(files1, listed, customer_id, fault)
             inserted == [unchanged EXCEPT !.customers = customers1,
                                           !.next_id.customers = @ + 1,
                                           !.customer_files = files2]
         IN  IF fault = "delete" THEN inserted
             ELSE [inserted EXCEPT !.customers_review = delete_row(@, review_id),
                                   !.ret_id = customer_id,
                                   !.path = "promote"]

\* the rows the email lookup of transfer_to_customers can return (NullId: none)
existing_customers(review_id) ==
    IF review_id \in DOMAIN customers_review /\ Truthy(customers_review[review_id].email)
    THEN LET matches == {id \in DOMAIN customers :
                            customers[id].email = customers_review[review_id].email}
         IN  IF matches = {} THEN {NullId} ELSE matches
    ELSE {NullId}

\* a statement can fail only in a call that executes it
TransferFaultApplies(review_id, fault, existing) ==
    LET found == review_id \in DOMAIN customers_review
        pending_files == \E f \in DOMAIN customer_files :
                            /\ customer_files[f].customer_review_id = review_id
                            /\ contains_pending(customer_files[f].file_path)
    IN  CASE fault \in {"none", "select_review"} -> TRUE
          [] fault = "select_customer" ->
                 found /\ Truthy(customers_review[review_id].email)
          [] fault = "insert" -> found /\ existing = NullId
          [] fault \in {"move_file", "update_file"} ->
                 found /\ existing = NullId /\ pending_files
          [] OTHER -> found

transfer_to_customers(review_id, fault, existing) ==
    /\ calls.transfer < MaxTransfer
    /\ \A w \in Workers : proc[w].pc = "idle"
    /\ TransferFaultApplies(review_id, fault, existing)
    /\ \E result \in {transfer_result(review_id, fault, existing)} :
          /\ customers' = result.customers
          /\ customers_review' = result.customers_review
          /\ customer_files' = result.customer_files
          /\ next_id' = result.next_id
          /\ last' = [op |-> "transfer", review_id |-> review_id, fault |-> fault,
                      existing |-> existing, path |-> result.path,
                      ret_id |-> result.ret_id]
    /\ calls' = [calls EXCEPT !.transfer = @ + 1]
    /\ pre' = [customers |-> customers, customers_review |-> customers_review,
               customer_files |-> customer_files]
    /\ UNCHANGED <<batch, call, proc>>

Transfer ==
    \E review_id \in 1..next_id.customers_review, fault \in TransferFaults :
        \E existing \in existing_customers(review_id) :
            transfer_to_customers(review_id, fault, existing)


\* the candidates ingested when the deduplication is explored: none or one
\* email, none or one phone already in its national format
DedupCandidates ==
    {c \in Candidates :
        /\ c.email \in {None, "anne@gmail.com"}
        /\ c.tel \in {None, "06 12 34 56 78"}
        /\ c.pays = "FR"}

\* the duplicate query that fails during an ingestion
DedupFaults == {"none", "check_email", "check_phone"}

DedupIngest ==
    \E c \in DedupCandidates, fault \in DedupFaults :
        \E svc \in {s \in ServiceAnswers : s.has_mx = "True"} :
            insert_customer_if_not_exists(c, svc, fault)

\* calls of the delete operations in one behaviour
MaxDelete == 1

\* the statement of a delete request that fails
DeleteFaults == {"none", "delete"}

\* DELETE /customer-reviews/{review_id}: 404 when get_customer_review_by_id
\* finds no row, else crud_customer_review.delete; a failing DELETE returns
\* False and the endpoint answers 500.  customer_files is not touched.
delete_customer_review(review_id, fault) ==
    /\ calls.delete < MaxDelete
    /\ \A w \in Workers : proc[w].pc = "idle"
    /\ calls' = [calls EXCEPT !.delete = @ + 1]
    /\ \E status \in {IF review_id \notin DOMAIN customers_review THEN 404
                      ELSE IF fault = "delete" THEN 500 ELSE 200} :
          /\ customers_review' = IF status = 200
                                 THEN delete_row(customers_review, review_id)
                                 ELSE customers_review
          /\ last' = [op |-> "delete_customer_review", review_id |-> review_id,
                      fault |-> fault, status |-> status]
    /\ UNCHANGED <<batch, call, customers, customer_files, next_id, pre, proc>>

\* DELETE /customers/{customer_id}: 404 when get_customer_by_id finds no row,
\* else crud_customer.delete; a failing DELETE returns False and the endpoint
\* answers 400.  customer_files is not touched.
delete_customer(customer_id, fault) ==
    /\ calls.delete < MaxDelete
    /\ \A w \in Workers : proc[w].pc = "idle"
    /\ calls' = [calls EXCEPT !.delete = @ + 1]
    /\ \E status \in {IF customer_id \notin DOMAIN customers THEN 404
                      ELSE IF fault = "delete" THEN 400 ELSE 200} :
          /\ customers' = IF status = 200
                          THEN delete_row(customers, customer_id)
                          ELSE customers
          /\ last' = [op |-> "delete_customer", customer_id |-> customer_id,
                      fault |-> fault, status |-> status]
    /\ UNCHANGED <<batch, call, customers_review, customer_files, next_id, pre, proc>>

DeleteCustomerReview ==
    \E review_id \in 1..next_id.customers_review, fault \in DeleteFaults :
        delete_customer_review(review_id, fault)

DeleteCustomer ==
    \E customer_id \in 1..next_id.customers, fault \in DeleteFaults :
        delete_customer(customer_id, fault)
\* ------------------------------------------------------------------------
\* Concurrent ingestions: each request runs insert_customer_if_not_exists on
\* a connection of its own (autocommit), one store statement at a time
\* ------------------------------------------------------------------------

\* the candidates ingested concurrently
ConcCandidates ==
    {c \in Candidates :
        /\ c.pays = "FR"
        /\ \/ c.email # None /\ c.tel = None
           \/ c.email = None /\ c.tel = "06 12 34 56 78"}

ConcServiceAnswers == {svc \in ServiceAnswers : svc.has_mx = "True"}

\* entry of insert_customer_if_not_exists: get_connection and
\* _map_ocr_to_customer; the next statement is a duplicate query or the insert
begin_ingestion(w, extracted_data, svc) ==
    /\ proc[w].pc = "idle"
    /\ calls.ingest < MaxIngest
    /\ \E mapped \in {MappedTable[extracted_data, svc]} :
          proc' = [proc EXCEPT ![w] =
                      [pc |-> IF /\ ~Truthy(mapped.phone_error)
                                 /\ ~mapped.was_email_corrected
                                 /\ \/ Truthy(mapped.customer_data.email)
                                    \/ Truthy(mapped.customer_data.phone)
                              THEN "check_email" ELSE "insert",
                       mapped |-> mapped,
                       email_exists |-> FALSE,
                       phone_exists |-> FALSE]]
    /\ calls' = [calls EXCEPT !.ingest = @ + 1]
    /\ UNCHANGED <<batch, call, customers, customers_review, customer_files, next_id, last, pre>>

\* _check_duplicate_type: `if email and check_duplicate_email(connection, email)`
step_check_email(w) ==
    /\ proc[w].pc = "check_email"
    /\ proc' = [proc EXCEPT
                   ![w].email_exists =
                       /\ Truthy(proc[w].mapped.customer_data.email)
                       /\ check_duplicate_email(customers,
                              proc[w].mapped.customer_data.email, FALSE),
                   ![w].pc = "check_phone"]
    /\ UNCHANGED <<batch, call, customers, customers_review, customer_files, next_id, calls,
                   last, pre>>

\* _check_duplicate_type: `if phone and check_duplicate_phone(connection, phone)`
step_check_phone(w) ==
    /\ proc[w].pc = "check_phone"
    /\ proc' = [proc EXCEPT
                   ![w].phone_exists =
                       /\ Truthy(proc[w].mapped.customer_data.phone)
                       /\ check_duplicate_phone(customers,
                              proc[w].mapped.customer_data.phone, FALSE),
                   ![w].pc = "insert"]
    /\ UNCHANGED <<batch, call, customers, customers_review, customer_files, next_id, calls,
                   last, pre>>

\* the tables after the create of the branch taken, and the result
insert_result(mapped, email_exists, phone_exists) ==
    apply_inserts(
        route_inserts(mapped,
            IF Truthy(mapped.customer_data.email) \/ Truthy(mapped.customer_data.phone)
            THEN check_duplicate_type(mapped.customer_data.email,
                                      mapped.customer_data.phone,
                                      email_exists, phone_exists)
            ELSE None),
        mapped.customer_data,
        [customers |-> customers, customers_review |-> customers_review,
         next_id |-> next_id, ret_id |-> NullId, ret_type |-> "error"])

\* the create of the branch taken, and the return
step_insert(w) ==
    /\ proc[w].pc = "insert"
    /\ \E after \in {insert_result(proc[w].mapped, proc[w].email_exists,
                                    proc[w].phone_exists)} :
          /\ customers' = after.customers
          /\ customers_review' = after.customers_review
          /\ next_id' = after.next_id
          /\ last' = [op |-> "concurrent_ingest", worker |-> w,
                      ret_id |-> after.ret_id, ret_type |-> after.ret_type]
    /\ proc' = [proc EXCEPT ![w] = IdleProc]
    /\ UNCHANGED <<batch, call, customer_files, calls, pre>>

BeginIngestion ==
    \E w \in Workers, c \in ConcCandidates, svc \in ConcServiceAnswers :
        begin_ingestion(w, c, svc)

CheckEmail == \E w \in Workers : step_check_email(w)

CheckPhone == \E w \in Workers : step_check_phone(w)

Insert == \E w \in Workers : step_insert(w)


\* ------------------------------------------------------------------------
\* Update with validation of a review record or a customer
\* ------------------------------------------------------------------------

\* calls of the update-with-validation operations in one behaviour
MaxUpdate == 1

\* the values a payload can give to 'email' and to 'phone'
EmailUpdates == {None, "anne@gmail.com", "bob@gmil.com"}

PhoneUpdates == {"", "06 12 34 56 78", "0700000000"}

\* the payloads (partial dicts): each of 'email' and 'phone' absent or present
UpdatePayloads ==
    {<<>>}
    \cup {[email |-> e] : e \in EmailUpdates}
    \cup {[phone |-> p] : p \in PhoneUpdates}
    \cup {[email |-> e, phone |-> p] : e \in EmailUpdates, p \in PhoneUpdates}

\* correct_email on every email of a payload, computed once
UpdateCorrectionTable ==
    [e \in {x \in EmailUpdates : Truthy(x)} |-> correct_email(e)]

EmailChecks == {"correct_email", "verify_email_domain", "validate_email_sync"}

PhoneChecks == {"verify_phone_number"}

\* the email re-validated whenever the payload has one, changed or not
validated_update_any_email(existing, customer_data, svc) ==
    LET email_given == "email" \in DOMAIN customer_data
                          /\ Truthy(customer_data.email)
        phone_changed == "phone" \in DOMAIN customer_data
                            /\ customer_data.phone # existing.phone
                            /\ Truthy(customer_data.phone)
        Email(correction) ==
            LET email == IF correction.was_corrected THEN correction.email
                         ELSE customer_data.email
            IN  [email |-> email,
                 verified_domain |-> verify_email_domain(email, svc.has_mx),
                 verified_email |-> validate_email_sync(email, svc.deliverable)]
    IN  [update_data |->
            (IF email_given
             THEN Email(UpdateCorrectionTable[customer_data.email]) ELSE <<>>)
            @@ (IF phone_changed
                THEN [verified_phone |->
                         verify_phone_number(customer_data.phone, svc.phone_valid)]
                ELSE <<>>)
            @@ customer_data,
         checks |-> (IF email_given THEN EmailChecks ELSE {})
                        \cup (IF phone_changed THEN PhoneChecks ELSE {})]

\* the body of update_customer_review_with_validation and of
\* update_customer_with_validation between get_by_id and update: the payload
\* completed with the results of the checks, and the checks that were run
validated_update(existing, customer_data, svc) ==
    LET email_changed == "email" \in DOMAIN customer_data
                            /\ customer_data.email # existing.email
                            /\ Truthy(customer_data.email)
        phone_changed == "phone" \in DOMAIN customer_data
                            /\ customer_data.phone # existing.phone
                            /\ Truthy(customer_data.phone)
        Email(correction) ==
            LET email == IF correction.was_corrected THEN correction.email
                         ELSE customer_data.email
            IN  [email |-> email,
                 verified_domain |-> verify_email_domain(email, svc.has_mx),
                 verified_email |-> validate_email_sync(email, svc.deliverable)]
    IN  [update_data |->
            (IF email_changed
             THEN Email(UpdateCorrectionTable[customer_data.email]) ELSE <<>>)
            @@ (IF phone_changed
                THEN [verified_phone |->
                         verify_phone_number(customer_data.phone, svc.phone_valid)]
                ELSE <<>>)
            @@ customer_data,
         checks |-> (IF email_changed THEN EmailChecks ELSE {})
                        \cup (IF phone_changed THEN PhoneChecks ELSE {})]

\* crud_customer.update / crud_customer_review.update: the columns whose
\* value is neither None nor "" are set by one UPDATE statement
update_row(table, id, customer_data) ==
    LET clean == {k \in DOMAIN customer_data :
                     customer_data[k] # None /\ customer_data[k] # ""}
    IN  IF clean = {} \/ id \notin DOMAIN table THEN table
        ELSE [table EXCEPT ![id] =
                 [k \in DOMAIN @ |-> IF k \in clean THEN customer_data[k] ELSE @[k]]]

\* the one statement (or the connection) that fails during an update
UpdateFaults == {"none", "connection", "get_by_id", "update"}

\* CustomerReviewRepository.update_customer_review_with_validation
update_customer_review_with_validation(review_id, customer_data, svc, fault) ==
    /\ calls.update < MaxUpdate
    /\ \A w \in Workers : proc[w].pc = "idle"
    /\ fault = "update" => review_id \in DOMAIN customers_review
    /\ LET found == fault \notin {"connection", "get_by_id"}
                       /\ review_id \in DOMAIN customers_review
           Update(validated) ==
               /\ customers_review' =
                      IF fault = "update" THEN customers_review
                      ELSE update_row(customers_review, review_id,
                                      validated.update_data)
               /\ last' = [op |-> "update_review", id |-> review_id,
                           customer_data |-> customer_data, fault |-> fault,
                           found |-> TRUE, checks |-> validated.checks]
       IN  IF found
           THEN Update(validated_update(customers_review[review_id],
                                        customer_data, svc))
           ELSE /\ customers_review' = customers_review
                /\ last' = [op |-> "update_review", id |-> review_id,
                            customer_data |-> customer_data, fault |-> fault,
                            found |-> FALSE, checks |-> {}]
    /\ calls' = [calls EXCEPT !.update = @ + 1]
    /\ pre' = [customers |-> customers, customers_review |-> customers_review,
               customer_files |-> customer_files]
    /\ UNCHANGED <<batch, call, customers, customer_files, next_id, proc>>

UpdateReview ==
    \E review_id \in 1..next_id.customers_review, customer_data \in UpdatePayloads,
       svc \in ServiceAnswers, fault \in UpdateFaults :
        update_customer_review_with_validation(review_id, customer_data, svc, fault)

\* CustomerBusinessService.update_customer_with_validation: the connection is
\* a pymysql connection and crud_customer.get_by_id asks it for
\* cursor(dictionary=True), which raises TypeError; the `finally` of get_by_id
\* then raises on the unbound cursor, so the call raises before any check and
\* before any write
update_customer_with_validation(customer_id, customer_data, svc, fault) ==
    /\ calls.update < MaxUpdate
    /\ \A w \in Workers : proc[w].pc = "idle"
    /\ fault \in {"none", "connection"}
    /\ last' = [op |-> "update_customer", id |-> customer_id,
                customer_data |-> customer_data, fault |-> fault,
                found |-> FALSE, checks |-> {}]
    /\ calls' = [calls EXCEPT !.update = @ + 1]
    /\ pre' = [customers |-> customers, customers_review |-> customers_review,
               customer_files |-> customer_files]
    /\ UNCHANGED <<batch, call, customers, customers_review, customer_files, next_id, proc>>

UpdateCustomer ==
    \E customer_id \in 1..next_id.customers, customer_data \in UpdatePayloads,
       svc \in ServiceAnswers, fault \in UpdateFaults :
        update_customer_with_validation(customer_id, customer_data, svc, fault)

\* ------------------------------------------------------------------------
\* Document classifier (DocumentClassifier)
\* ------------------------------------------------------------------------

\* DocumentType
BLANK_SHEET == "blank_sheet"

STUDIO_PARFUMS == "studio_parfums"

UNKNOWN == "unknown"

\* `keyword in text` on strings
InText(keyword, text) ==
    \E i \in 1..(Len(text) - Len(keyword) + 1) :
        SubSeq(text, i, i + Len(keyword) - 1) = keyword

studio_parfums_keywords ==
    <<"LE STUDIO DES PARFUMS", "STUDIO DES PARFUMS", "STUDIO PARFUMS">>

blank_sheet_keywords == <<"fiches manquantes", "doublons", "tel", "mail">>

\* the month names of the first month/year pattern.  The source writes
\* février, août and décembre with mis-encoded characters, which occur in no
\* text: those three alternatives never match and are left out.
MonthNames ==
    {"janvier", "mars", "avril", "mai", "juin", "juillet",
     "septembre", "octobre", "novembre"}

\* \w and \s of the regular expressions
WordChars == LowerLetters \cup DOMAIN LowerMap \cup Digits \cup {"_"}

Whitespace == {" ", "\n", "\t", "\r"}

\* \d{n} at position i
DigitsAt(text, i, n) ==
    /\ i + n - 1 <= Len(text)
    /\ \A k \in 0..(n - 1) : Char(text, i + k) \in Digits

\* \b before the word character at i / after the word character at j - 1
BoundaryBefore(text, i) == i = 1 \/ Char(text, i - 1) \notin WordChars

BoundaryAfter(text, j) == j > Len(text) \/ Char(text, j) \notin WordChars

\* r'\b(janvier|...)\s+\d{4}\b' matches at position i (re.IGNORECASE)
NamedMonthAt(text, i) ==
    /\ BoundaryBefore(text, i)
    /\ \E m \in MonthNames :
          /\ i + Len(m) - 1 <= Len(text)
          /\ lower(SubSeq(text, i, i + Len(m) - 1)) = lower(m)
          /\ \E w \in 1..(Len(text) - i - Len(m) + 1) :
                /\ \A k \in 0..(w - 1) : Char(text, i + Len(m) + k) \in Whitespace
                /\ DigitsAt(text, i + Len(m) + w, 4)
                /\ BoundaryAfter(text, i + Len(m) + w + 4)

\* r'\b\d{1,2}/\d{4}\b' (sep "/") and r'\b\d{1,2}-\d{4}\b' (sep "-") at i
NumericMonthAt(text, i, sep) ==
    /\ BoundaryBefore(text, i)
    /\ \E n \in {1, 2} :
          /\ DigitsAt(text, i, n)
          /\ i + n <= Len(text)
          /\ Char(text, i + n) = sep
          /\ DigitsAt(text, i + n + 1, 4)
          /\ BoundaryAfter(text, i + n + 5)

\* any(re.search(pattern, text, re.IGNORECASE) for pattern in month_year_patterns)
month_year_found(text) ==
    \E i \in 1..Len(text) :
        NamedMonthAt(text, i) \/ NumericMonthAt(text, i, "/")
            \/ NumericMonthAt(text, i, "-")

\* the scores are counted in hundredths: 80 stands for 0.8, 100 for 1.0
\* _calculate_studio_score
calculate_studio_score(text) ==
    LET keyword == IF \E k \in 1..Len(studio_parfums_keywords) :
                         InText(lower(studio_parfums_keywords[k]), text)
                   THEN 80 ELSE 0
        parfum  == IF InText("parfum", text) THEN 20 ELSE 0
        studio  == IF InText("studio", text) THEN 20 ELSE 0
    IN  Min2(keyword + parfum + studio, 100)

\* _calculate_blank_sheet_score
calculate_blank_sheet_score(text) ==
    LET found_keywords ==
            Cardinality({k \in 1..Len(blank_sheet_keywords) :
                            InText(blank_sheet_keywords[k], text)})
        month == IF month_year_found(text) THEN 30 ELSE 0
        bonus == IF found_keywords >= 3 THEN 20 ELSE 0
    IN  Min2(25 * found_keywords + month + bonus, 100)

\* a decision that takes the form whenever its score reaches the threshold,
\* also on a tie with the blank-sheet score
decide_ties_as_form(studio_score, blank_score) ==
    IF studio_score >= blank_score /\ studio_score > 30
    THEN [document_type |-> STUDIO_PARFUMS, confidence |-> studio_score]
    ELSE IF blank_score > studio_score /\ blank_score > 30
    THEN [document_type |-> BLANK_SHEET, confidence |-> blank_score]
    ELSE [document_type |-> UNKNOWN,
          confidence |-> IF studio_score >= blank_score THEN studio_score
                         ELSE blank_score]

\* the decision of classify_document on the two scores
decide(studio_score, blank_score) ==
    IF studio_score > blank_score /\ studio_score > 30
    THEN [document_type |-> STUDIO_PARFUMS, confidence |-> studio_score]
    ELSE IF blank_score > studio_score /\ blank_score > 30
    THEN [document_type |-> BLANK_SHEET, confidence |-> blank_score]
    ELSE [document_type |-> UNKNOWN,
          confidence |-> IF studio_score >= blank_score THEN studio_score
                         ELSE blank_score]

\* classify_document: returns [document_type, confidence, studio_score, blank_score]
classify_document(text) ==
    LET Scored(text_lower) ==
            LET Decided(studio_score, blank_score) ==
                    decide(studio_score, blank_score)
                        @@ [studio_score |-> studio_score,
                            blank_score |-> blank_score]
            IN  Decided(calculate_studio_score(text_lower),
                        calculate_blank_sheet_score(text_lower))
    IN  Scored(lower(text))

\* ------------------------------------------------------------------------
\* Processing of a document page by page (endpoints of ocr.py)
\* ------------------------------------------------------------------------

\* pages of a document
MaxPages == 3

\* what the OCR call answers for a page: a text (a form title, the keywords
\* of a blank sheet, nothing) or an exception
PageOutcomes ==
    { [ocr |-> "ok", raw_text |-> "LE STUDIO DES PARFUMS"],
      [ocr |-> "ok", raw_text |-> "doublons tel mail"],
      [ocr |-> "ok", raw_text |-> ""],
      [ocr |-> "error", error |-> "OCR timeout"] }

Documents == UNION {[1..n -> PageOutcomes] : n \in 1..MaxPages}

Endpoints == {"upload-pdf", "upload-pdf-csv"}

\* data_extractor.extract_data on the page texts above, which carry a title
\* or keywords and no field value: every extracted field is empty
extract_data(text, document_type) ==
    IF document_type = BLANK_SHEET
    THEN [month_year |-> None, fiches_manquantes |-> <<>>, doublons |-> <<>>,
          tel |-> <<>>, mail |-> <<>>]
    ELSE IF document_type = STUDIO_PARFUMS
    THEN [title_detected |-> InText("studio des parfums", lower(text)),
          identifiant |-> None, genre |-> None, nom |-> None, prenom |-> None,
          date |-> None, ville |-> None, pays |-> None, tel |-> None,
          email |-> None, profession |-> None, date_naissance |-> None]
    ELSE [raw_text |-> text]

\* classify_document on every page text of the model, computed once
ClassifiedPages ==
    [t \in {o.raw_text : o \in {p \in PageOutcomes : p.ocr = "ok"}} |->
        classify_document(t)]

\* the entry of a page whose OCR, classification and extraction succeeded
processed_page(page_number, raw_text) ==
    [page_number    |-> page_number,
     document_type  |-> ClassifiedPages[raw_text].document_type,
     confidence     |-> ClassifiedPages[raw_text].confidence,
     raw_text       |-> raw_text,
     extracted_data |-> extract_data(raw_text,
                                     ClassifiedPages[raw_text].document_type)]

\* the entry upload_pdf_for_ocr appends in its `except` branch
error_page(page_number, error) ==
    [page_number    |-> page_number,
     document_type  |-> UNKNOWN,
     confidence     |-> 0,
     raw_text       |-> "Error: " \o error,
     extracted_data |-> <<>>]

\* the fields of an extracted form that _map_ocr_to_customer reads
candidate_of(extracted_data) ==
    [k \in {"email", "tel", "pays", "prenom", "nom", "profession", "ville",
            "identifiant", "date"} |-> extracted_data[k]]

InitBatch ==
    /\ EmptyStore
    /\ call = [fn |-> "none"]
    /\ batch \in {[endpoint |-> e, pages |-> d, next |-> 1,
                   processed_pages |-> <<>>] : e \in Endpoints, d \in Documents}

\* one iteration of the page loop of upload_pdf_for_ocr
process_page_json ==
    /\ batch.endpoint = "upload-pdf"
    /\ batch.next <= Len(batch.pages)
    /\ LET page_number == batch.next
           page == batch.pages[page_number]
       IN  batch' = [batch EXCEPT
              !.next = @ + 1,
              !.processed_pages =
                  Append(@, IF page.ocr = "ok"
                            THEN processed_page(page_number, page.raw_text)
                            ELSE error_page(page_number, page.error))]
    /\ UNCHANGED <<customers, customers_review, customer_files, next_id, calls,
                   last, pre, proc, call>>

\* one iteration of the page loop of upload_pdf_and_download_csv: a form is
\* ingested, and a page whose processing raises is skipped (`continue`)
process_page_csv(svc, fault) ==
    /\ batch.endpoint = "upload-pdf-csv"
    /\ batch.next <= Len(batch.pages)
    /\ LET page_number == batch.next
           page == batch.pages[page_number]
           entry == processed_page(page_number, page.raw_text)
           Ingested(after) ==
               /\ customers' = after.customers
               /\ customers_review' = after.customers_review
               /\ next_id' = after.next_id
               /\ batch' = [batch EXCEPT
                      !.next = @ + 1,
                      !.processed_pages =
                          Append(@, entry @@ [customer_id |->
                                                 <<after.ret_id, after.ret_type>>])]
       IN  IF page.ocr # "ok"
           THEN /\ batch' = [batch EXCEPT !.next = @ + 1]
                /\ UNCHANGED <<customers, customers_review, next_id>>
           ELSE IF entry.document_type = STUDIO_PARFUMS
           THEN \E mapped \in {MappedTable[candidate_of(entry.extracted_data), svc]} :
                    /\ IngestFaultApplies(fault, mapped)
                    /\ Ingested(ingest_result(mapped, fault))
           ELSE /\ batch' = [batch EXCEPT
                       !.next = @ + 1,
                       !.processed_pages =
                           Append(@, entry @@ [customer_id |-> None])]
                /\ UNCHANGED <<customers, customers_review, next_id>>
    /\ UNCHANGED <<customer_files, calls, last, pre, proc, call>>

ProcessPageJson == process_page_json

ProcessPageCsv ==
    \E svc \in ServiceAnswers, fault \in {"none", "insert"} :
        process_page_csv(svc, fault)

\* ------------------------------------------------------------------------
\* Calls of the normalizers and of the classifier, one function at a time
\* ------------------------------------------------------------------------

\* what the HTTP exchange of verify_phone_number produces: a response with
\* its status and its JSON object (with or without the key "valid"), a
\* timeout, or another exception (connection error, body that is not JSON)
PhoneResponses ==
    { [kind |-> "response", status_code |-> 200, data |-> [valid |-> "True"]],
      [kind |-> "response", status_code |-> 200, data |-> [valid |-> "False"]],
      [kind |-> "response", status_code |-> 200, data |-> [valid |-> None]],
      [kind |-> "response", status_code |-> 200, data |-> <<>>],
      [kind |-> "response", status_code |-> 429, data |-> <<>>],
      [kind |-> "response", status_code |-> 500, data |-> <<>>],
      [kind |-> "timeout"],
      [kind |-> "exception"] }

\* the `try` block of verify_phone_number: data.get("valid", False) for a
\* status 200, None for every other status and for every exception
phone_api_answer(response) ==
    IF response.kind # "response" THEN None
    ELSE IF response.status_code = 200
    THEN IF "valid" \in DOMAIN response.data THEN response.data.valid
         ELSE "False"
    ELSE None

PhoneCheckInputs == {"", " -", "06 12 34 56 78", "+33 6 12 34 56 78", "0612345678"}

\* a call waiting to be made
Pending(fn, args) == [fn |-> fn, args |-> args, done |-> FALSE]

VerifyPhoneCalls ==
    {Pending("verify_phone_number", [phone |-> p, response |-> r]) :
        p \in PhoneCheckInputs, r \in PhoneResponses}

\* PhoneIntelligenceValidator.verify_phone_number(phone)
VerifyPhone ==
    /\ call.fn = "verify_phone_number" /\ ~call.done
    /\ call' = [call EXCEPT !.done = TRUE] @@
               [result |-> verify_phone_number(call.args.phone,
                               phone_api_answer(call.args.response))]
    /\ UNCHANGED <<customers, customers_review, customer_files, next_id, calls,
                   last, pre, proc, batch>>

\* texts made of a title part and a blank-sheet part, covering every pair of
\* scores the two parts can give
StudioParts ==
    {"", "parfum", "Studio", "studio parfum", "LE STUDIO DES PARFUMS",
     "Studio Parfums"}

BlankParts ==
    {"", "doublons", "tel mail", "fiches manquantes doublons tel",
     "fiches manquantes doublons tel mail", "janvier 2024", "doublons 01/2024",
     "tel mail 1-2024", "Fiches manquantes Doublons Tel Mars 2024"}

ClassifierTexts == {a \o "\n" \o b : a \in StudioParts, b \in BlankParts}

\* classify_document on every text of the model, computed once
ClassifierTable == [t \in ClassifierTexts |-> classify_document(t)]

ClassifyCalls ==
    {Pending("classify_document", [text |-> t]) : t \in ClassifierTexts}

\* DocumentClassifier.classify_document(text)
Classify ==
    /\ call.fn = "classify_document" /\ ~call.done
    /\ call' = [call EXCEPT !.done = TRUE] @@
               [result |-> ClassifierTable[call.args.text]]
    /\ UNCHANGED <<customers, customers_review, customer_files, next_id, calls,
                   last, pre, proc, batch>>

PhoneInputs ==
    {"0612345678", "06 12 34 56 78", "061234", "+33 6 12 34 56 78",
     "06.12.34.56.78", "(555) 123-4567", "555-123-4567", "012345678",
     "12345678", "0471234567"}

CountryOfPhoneInputs ==
    {None, "", "France", "Belgique", "États-Unis", "Espagne", "Tunisie",
     "Japon", "FR"}

\* validate_phone_number on every input of the model, computed once
ValidatePhoneTable ==
    [p \in PhoneInputs, c \in CountryOfPhoneInputs |-> validate_phone_number(p, c)]

ValidatePhoneCalls ==
    {Pending("validate_phone_number", [phone |-> p, country |-> c]) :
        p \in PhoneInputs, c \in CountryOfPhoneInputs}

\* PhoneValidator.validate_phone_number(phone, country)
ValidatePhone ==
    /\ call.fn = "validate_phone_number" /\ ~call.done
    /\ call' = [call EXCEPT !.done = TRUE] @@
               [result |-> ValidatePhoneTable[call.args.phone, call.args.country]]
    /\ UNCHANGED <<customers, customers_review, customer_files, next_id, calls,
                   last, pre, proc, batch>>

CorrectorEmails ==
    {"user@gmail.com", "user@gmil.com", "user@proton.me", "user@protn.me",
     "user@hotmail.fr", "user@gmail.con", "user@gmail,com", "user@gmial.com",
     "user@g-maill.com", "user@g-mail.com", "user@gwol.com", "user",
     "user@GMAIL.COM", "user@mon-entreprise.fr", "user@entreprise.fr",
     "user@yahooo.fe", "user@hotmal.con", "user@me.com", "user@gmail.xyz",
     "user@orange.fr", "user@orang.fr", "user@a@gmil.com", ""}

\* correct_email on every input of the model, computed once
CorrectEmailTable == [e \in CorrectorEmails |-> correct_email(e)]

\* correct_email on every email the first application returns, computed once
CorrectEmailAgainTable ==
    [e \in {CorrectEmailTable[x].email : x \in CorrectorEmails} |-> correct_email(e)]

CorrectEmailCalls == {Pending("correct_email", [email |-> e]) : e \in CorrectorEmails}

\* EmailDomainCorrector.correct_email(email)
CorrectEmail ==
    /\ call.fn = "correct_email" /\ ~call.done
    /\ call' = [call EXCEPT !.done = TRUE] @@
               [result |-> CorrectEmailTable[call.args.email]]
    /\ UNCHANGED <<customers, customers_review, customer_files, next_id, calls,
                   last, pre, proc, batch>>

\* EmailDomainCorrector.correct_email applied to the email it returned
CorrectEmailAgain ==
    /\ call.fn = "correct_email" /\ call.done
    /\ "again" \notin DOMAIN call
    /\ call' = call @@ [again |-> CorrectEmailAgainTable[call.result.email]]
    /\ UNCHANGED <<customers, customers_review, customer_files, next_id, calls,
                   last, pre, proc, batch>>

CountryInputs ==
    {"France", "FR", "Frence", " France ", "france", "FRANCE", "fr", "DE", "IE",
     "USA", "usa", "United States", "Holland", "Belguim", "Atlantide", "XY",
     "X1", "", "   ", "Inde", "Ind", "china", "F", "Etats-Unis", "Fra", "Irak",
     "Chin", "Japan", "Suisse ", "U.S."}

\* correct_country on every input of the model, computed once
CorrectCountryTable == [c \in CountryInputs |-> correct_country(c)]

CorrectCountryCalls ==
    {Pending("correct_country", [country |-> c]) : c \in CountryInputs}

\* CountryCorrector.correct_country(country)
CorrectCountry ==
    /\ call.fn = "correct_country" /\ ~call.done
    /\ call' = [call EXCEPT !.done = TRUE] @@
               [result |-> CorrectCountryTable[call.args.country]]
    /\ UNCHANGED <<customers, customers_review, customer_files, next_id, calls,
                   last, pre, proc, batch>>

NormalizerCalls ==
    VerifyPhoneCalls \cup ClassifyCalls \cup ValidatePhoneCalls
        \cup CorrectEmailCalls \cup CorrectCountryCalls

\* ------------------------------------------------------------------------
\* CSV generator (CSVGenerator)
\* ------------------------------------------------------------------------

HEADERS ==
    <<"identifiant", "genre", "nom", "prenom", "date", "ville", "pays", "tel",
      "email", "profession", "date_naissance">>

\* str.startswith
startswith(s, prefix) ==
    Len(s) >= Len(prefix) /\ SubSeq(s, 1, Len(prefix)) = prefix

\* str.find: the 0-based position of the first occurrence, -1 when absent
find(s, sub) ==
    IF InText(sub, s)
    THEN (CHOOSE i \in 1..(Len(s) - Len(sub) + 1) :
             /\ SubSeq(s, i, i + Len(sub) - 1) = sub
             /\ \A j \in 1..(i - 1) : SubSeq(s, j, j + Len(sub) - 1) # sub) - 1
    ELSE 0 - 1

\* str.split(c) for a one-character c
RECURSIVE split(_, _)
split(s, c) ==
    IF ~Contains(s, c) THEN <<s>>
    ELSE <<SubSeq(s, 1, FirstIndex(s, c) - 1)>>
             \o split(SubSeq(s, FirstIndex(s, c) + 1, Len(s)), c)

\* str.count for a one-character c
RECURSIVE count(_, _)
count(s, c) ==
    IF s = "" THEN 0 ELSE (IF Head(s) = c THEN 1 ELSE 0) + count(Tail(s), c)

\* re.sub(r"\s+", " ", v)
RECURSIVE collapse_whitespace(_)
collapse_whitespace(v) ==
    IF v = "" THEN ""
    ELSE IF Head(v) \in Whitespace
    THEN IF Len(v) > 1 /\ Char(v, 2) \in Whitespace
         THEN collapse_whitespace(Tail(v))
         ELSE " " \o collapse_whitespace(Tail(v))
    ELSE Head(v) \o collapse_whitespace(Tail(v))

cut_labels ==
    <<"Pays:", "Ville:", "Tel:", "Email:", "Profession:", "Date:", "Nom:",
      "Prénom:", "Date de naissance:">>

\* _cut_on_labels: the value is cut at the first label of the list it holds
RECURSIVE cut_on_labels_from(_, _)
cut_on_labels_from(v, k) ==
    IF k > Len(cut_labels) THEN strip(v)
    ELSE IF InText(lower(cut_labels[k]), lower(v))
    THEN strip(SubSeq(v, 1, find(lower(v), lower(cut_labels[k]))))
    ELSE cut_on_labels_from(v, k + 1)

cut_on_labels(v) == cut_on_labels_from(v, 1)

\* _clean_simple
clean_simple(value) ==
    IF ~Truthy(value) THEN "" ELSE cut_on_labels(collapse_whitespace(strip(value)))

\* _clean_date, _clean_city, _clean_country, _clean_phone, _clean_email on a
\* field the page does not carry: `if not value: return ""`.  The pages of
\* the model carry an identifier and a name and no other field.
clean_absent(value) == CHOOSE v \in {""} : ~Truthy(value)

\* _clean_identifiant without the rewriting of the first two digits
clean_identifiant_digits_only(value) ==
    IF ~Truthy(value) THEN ""
    ELSE LET Cut(digits) == IF Len(digits) >= 9 THEN SubSeq(digits, 1, 9) ELSE digits
         IN  Cut(clean_phone_number(value))

\* _clean_identifiant: re.sub(r"\D", "", str(value)), at most 9 digits, the
\* first two replaced by "20" when they are not "20"
clean_identifiant(value) ==
    IF ~Truthy(value) THEN ""
    ELSE LET Cut(digits) == IF Len(digits) >= 9 THEN SubSeq(digits, 1, 9) ELSE digits
             Fix(digits) == IF ~startswith(digits, "20")
                            THEN "20" \o SubSeq(digits, 3, Len(digits))
                            ELSE digits
         IN  Fix(Cut(clean_phone_number(value)))

\* dict.get(key): None for a key the dict does not have
get(data, key) == IF key \in DOMAIN data THEN data[key] ELSE None

\* the `while` loop of _detect_identifiant_prefix: the common prefix of two
\* identifiers
RECURSIVE common_prefix(_, _)
common_prefix(prefix, ident) ==
    IF prefix # "" /\ ident # "" /\ Head(prefix) = Head(ident)
    THEN Head(prefix) \o common_prefix(Tail(prefix), Tail(ident))
    ELSE ""

\* the `for ident in identifiants[1:]` loop of _detect_identifiant_prefix
RECURSIVE common_prefix_of_all(_, _, _)
common_prefix_of_all(prefix, identifiants, k) ==
    IF k > Len(identifiants) THEN prefix
    ELSE common_prefix_of_all(common_prefix(prefix, identifiants[k]), identifiants, k + 1)

\* the identifiers _detect_identifiant_prefix collects: cleaned, non-empty,
\* at least 6 characters
RECURSIVE usable_identifiants(_)
usable_identifiants(studio_pages) ==
    IF studio_pages = <<>> THEN <<>>
    ELSE LET Keep(identifiant) ==
                 IF identifiant # "" /\ Len(identifiant) >= 6
                 THEN <<identifiant>> ELSE <<>>
         IN  Keep(clean_identifiant(get(Head(studio_pages).extracted_data, "identifiant")))
                 \o usable_identifiants(Tail(studio_pages))

\* _detect_identifiant_prefix with the whole common prefix returned
detect_identifiant_prefix_longest(studio_pages) ==
    LET Detect(identifiants) ==
            IF identifiants = <<>> THEN ""
            ELSE IF Len(identifiants) = 1 THEN SubSeq(identifiants[1], 1, 6)
            ELSE LET Six(prefix) == IF Len(prefix) >= 6 THEN prefix ELSE ""
                 IN  Six(common_prefix_of_all(identifiants[1], identifiants, 2))
    IN  Detect(usable_identifiants(studio_pages))

\* _detect_identifiant_prefix
detect_identifiant_prefix(studio_pages) ==
    LET Detect(identifiants) ==
            IF identifiants = <<>> THEN ""
            ELSE IF Len(identifiants) = 1 THEN SubSeq(identifiants[1], 1, 6)
            ELSE LET Six(prefix) ==
                         IF Len(prefix) >= 6 THEN SubSeq(prefix, 1, 6) ELSE ""
                 IN  Six(common_prefix_of_all(identifiants[1], identifiants, 2))
    IN  Detect(usable_identifiants(studio_pages))

DigitChar == <<"0", "1", "2", "3", "4", "5", "6", "7", "8", "9">>

\* str(i) for a natural number
RECURSIVE str(_)
str(i) == IF i < 10 THEN DigitChar[i + 1] ELSE str(i \div 10) \o DigitChar[(i % 10) + 1]

\* f"{i:03d}"
format_03d(i) ==
    IF i < 10 THEN "00" \o str(i) ELSE IF i < 100 THEN "0" \o str(i) ELSE str(i)

\* the filter of generate_studio_parfums_csv leaving out the blank sheets only
pages_but_blank_sheets(processed_pages) ==
    SelectSeq(processed_pages, LAMBDA page : page.document_type # BLANK_SHEET)

\* the filter of generate_studio_parfums_csv:
\* page.get("document_type") == DocumentType.STUDIO_PARFUMS.value
studio_pages_of(processed_pages) ==
    SelectSeq(processed_pages, LAMBDA page : page.document_type = STUDIO_PARFUMS)

\* the row of the i-th form (i counted from 1 among the forms)
csv_row(page, i, prefix) ==
    LET data == page.extracted_data
        Identifiant(identifiant) ==
            IF identifiant = "" /\ prefix # "" THEN prefix \o format_03d(i)
            ELSE identifiant
    IN  [identifiant    |-> Identifiant(clean_identifiant(get(data, "identifiant"))),
         genre          |-> clean_simple(get(data, "genre")),
         nom            |-> clean_simple(get(data, "nom")),
         prenom         |-> clean_simple(get(data, "prenom")),
         date           |-> clean_absent(get(data, "date")),
         ville          |-> clean_absent(get(data, "ville")),
         pays           |-> clean_absent(get(data, "pays")),
         tel            |-> clean_absent(get(data, "tel")),
         email          |-> clean_absent(get(data, "email")),
         profession     |-> clean_simple(get(data, "profession")),
         date_naissance |-> clean_absent(get(data, "date_naissance"))]

\* the rows generate_studio_parfums_csv writes, in order
csv_rows(processed_pages) ==
    LET Rows(studio_pages) ==
            LET Numbered(prefix) ==
                    [i \in 1..Len(studio_pages) |-> csv_row(studio_pages[i], i, prefix)]
            IN  Numbered(detect_identifiant_prefix(studio_pages))
    IN  Rows(studio_pages_of(processed_pages))

\* a field as csv.writer writes it with QUOTE_MINIMAL: quoted, with its
\* quotes doubled, when it holds the delimiter, a quote or a line break
RECURSIVE double_quotes(_)
double_quotes(field) ==
    IF field = "" THEN ""
    ELSE (IF Head(field) = "\"" THEN "\"\"" ELSE Head(field))
             \o double_quotes(Tail(field))

csv_field(field) ==
    IF \E i \in 1..Len(field) : Char(field, i) \in {";", "\"", "\n", "\r"}
    THEN "\"" \o double_quotes(field) \o "\"" ELSE field

\* writer.writerow / writer.writeheader: the fields joined by ';' and "\n"
RECURSIVE csv_join(_, _)
csv_join(fields, k) ==
    IF k > Len(fields) THEN "\n"
    ELSE (IF k > 1 THEN ";" ELSE "") \o csv_field(fields[k]) \o csv_join(fields, k + 1)

csv_line(fields) == csv_join(fields, 1)

RECURSIVE csv_lines(_, _)
csv_lines(rows, k) ==
    IF k > Len(rows) THEN ""
    ELSE csv_line([c \in 1..Len(HEADERS) |-> rows[k][HEADERS[c]]])
             \o csv_lines(rows, k + 1)

\* generate_studio_parfums_csv: the text of the CSV
generate_studio_parfums_csv(processed_pages) ==
    csv_line(HEADERS) \o csv_lines(csv_rows(processed_pages), 1)

\* ------------------------------------------------------------------------
\* Calls of the CSV generator
\* ------------------------------------------------------------------------

\* identifiers as the extraction hands them over: absent, canonical, too
\* long, garbled, with no digit, too short to give a prefix
IdentifiantInputs ==
    {None, "202201005", "202201007", "202305011", "2022010051", "62201005",
     "abc", "20221"}

\* the name printed on the form of each page, by page number
PageNames == <<"Alpha", "Bravo  Nom: x", "Charlie", "Delta">>

\* a form as the page loop records it
studio_page(page_number, identifiant) ==
    [page_number    |-> page_number,
     document_type  |-> STUDIO_PARFUMS,
     extracted_data |->
         [title_detected |-> TRUE, identifiant |-> identifiant, genre |-> None,
          nom |-> PageNames[page_number], prenom |-> None, date |-> None,
          ville |-> None, pays |-> None, tel |-> None, email |-> None,
          profession |-> None, date_naissance |-> None]]

\* a page of another type as the page loop records it
other_page(page_number, document_type) ==
    [page_number    |-> page_number,
     document_type  |-> document_type,
     extracted_data |-> extract_data("", document_type)]

PagesAt(page_number) ==
    {studio_page(page_number, identifiant) : identifiant \in IdentifiantInputs}
        \cup {other_page(page_number, t) : t \in {BLANK_SHEET, UNKNOWN}}

\* the batches of processed pages: up to MaxPages pages, numbered from 1
RECURSIVE BatchesOf(_)
BatchesOf(n) ==
    IF n = 0 THEN {<<>>}
    ELSE {Append(b, page) : b \in BatchesOf(n - 1), page \in PagesAt(n)}

Batches == UNION {BatchesOf(n) : n \in 0..MaxPages}

GenerateCsvCalls ==
    {Pending("generate_studio_parfums_csv", [processed_pages |-> b]) : b \in Batches}

\* CSVGenerator.generate_studio_parfums_csv(processed_pages)
GenerateCsv ==
    /\ call.fn = "generate_studio_parfums_csv" /\ ~call.done
    /\ call' = [call EXCEPT !.done = TRUE] @@
               [result |-> generate_studio_parfums_csv(call.args.processed_pages)]
    /\ UNCHANGED <<customers, customers_review, customer_files, next_id, calls,
                   last, pre, proc, batch>>

IdentifiantValues ==
    IdentifiantInputs \cup
        {"", "0", "2", "19", "20", "x2y0z", "123456789012", "ID 2022-01-005",
         "0202201005", "2 0 2 2 0 1 0 0 5", "620220100"}

CleanIdentifiantCalls ==
    {Pending("clean_identifiant", [value |-> v]) : v \in IdentifiantValues}

\* CSVGenerator._clean_identifiant(value)
CleanIdentifiant ==
    /\ call.fn = "clean_identifiant" /\ ~call.done
    /\ call' = [call EXCEPT !.done = TRUE] @@
               [result |-> clean_identifiant(call.args.value)]
    /\ UNCHANGED <<customers, customers_review, customer_files, next_id, calls,
                   last, pre, proc, batch>>

\* ------------------------------------------------------------------------
\* End of upload_pdf_and_download_csv: the CSV file and the response
\* ------------------------------------------------------------------------

\* `not csv_content.strip()`
is_blank(text) == \A i \in 1..Len(text) : Char(text, i) \in Whitespace

\* the `except Exception` clause that closes the endpoint: whatever was raised
\* in its `try` block, an HTTPException included, is answered with status 500
answer_of_except_clause(raised) == [status_code |-> 500, raised |-> raised]

\* upload_pdf_and_download_csv after its page loop: the CSV is generated; a
\* CSV with no data row raises HTTPException(404) inside the `try` block;
\* otherwise the file is written and the summary is returned
finish_csv(fault) ==
    /\ batch.endpoint = "upload-pdf-csv"
    /\ batch.next > Len(batch.pages)
    /\ "response" \notin DOMAIN batch
    /\ \E csv_content \in {generate_studio_parfums_csv(batch.processed_pages)} :
          batch' = batch @@
              (IF is_blank(csv_content) \/ count(csv_content, "\n") <= 1
               THEN [csv_content |-> csv_content,
                     written     |-> {},
                     response    |-> answer_of_except_clause(
                         [type |-> "HTTPException", status_code |-> 404,
                          detail |-> "No Studio des Parfums forms found in this PDF"])]
               ELSE IF fault = "write"
               THEN [csv_content |-> csv_content,
                     written     |-> {},
                     response    |-> answer_of_except_clause(
                         [type |-> "OSError", status_code |-> 0,
                          detail |-> "open"])]
               ELSE [csv_content |-> csv_content,
                     written     |-> {csv_content},
                     response    |->
                         [status_code |-> 200,
                          total_studio_parfums_found |->
                              Len(studio_pages_of(batch.processed_pages))]])
    /\ UNCHANGED <<customers, customers_review, customer_files, next_id, calls,
                   last, pre, proc, call>>

FinishCsv == \E fault \in {"none", "write"} : finish_csv(fault)

\* ------------------------------------------------------------------------
\* Data extractor (DataExtractor)
\* ------------------------------------------------------------------------

\* text.split('\n')[:5]
first_lines(text) ==
    LET Top(lines) == SubSeq(lines, 1, IF Len(lines) < 5 THEN Len(lines) ELSE 5)
    IN  Top(split(text, "\n"))

\* str.lstrip("0")
RECURSIVE lstrip_zeros(_)
lstrip_zeros(s) == IF s # "" /\ Head(s) = "0" THEN lstrip_zeros(Tail(s)) ELSE s

\* the length of the match of r'\b\d{8,10}\b' at position i, 0 when there is none
run_at(line, i) ==
    IF BoundaryBefore(line, i)
          /\ \E n \in 8..10 : DigitsAt(line, i, n) /\ BoundaryAfter(line, i + n)
    THEN CHOOSE n \in 8..10 : DigitsAt(line, i, n) /\ BoundaryAfter(line, i + n)
    ELSE 0

\* the body of `for raw_ident in matches`: the identifier returned for a run,
\* None when the loop goes on
ident_of_run(raw_ident) ==
    LET Rules(ident) ==
            IF startswith(ident, "20") THEN ident
            ELSE IF startswith(ident, "6") THEN "20" \o SubSeq(ident, 2, Len(ident))
            ELSE IF startswith(ident, "62") THEN "202" \o SubSeq(ident, 3, Len(ident))
            ELSE None
    IN  Rules(lstrip_zeros(raw_ident))

\* `for raw_ident in re.findall(r'\b\d{8,10}\b', line)`, from position i on
RECURSIVE ident_of_runs(_, _)
ident_of_runs(line, i) ==
    IF i > Len(line) THEN None
    ELSE IF run_at(line, i) = 0 THEN ident_of_runs(line, i + 1)
    ELSE IF ident_of_run(SubSeq(line, i, i + run_at(line, i) - 1)) # None
    THEN ident_of_run(SubSeq(line, i, i + run_at(line, i) - 1))
    ELSE ident_of_runs(line, i + run_at(line, i))

\* the number of whitespace characters from position i on
RECURSIVE spaces_at(_, _)
spaces_at(line, i) ==
    IF i <= Len(line) /\ Char(line, i) \in Whitespace THEN 1 + spaces_at(line, i + 1)
    ELSE 0

\* the length of the match of r'\b(\d{4})\s+(\d{5})\b' at position i, 0 when
\* there is none
pair_at(line, i) ==
    IF /\ BoundaryBefore(line, i)
       /\ DigitsAt(line, i, 4)
       /\ spaces_at(line, i + 4) > 0
       /\ DigitsAt(line, i + 4 + spaces_at(line, i + 4), 5)
       /\ BoundaryAfter(line, i + 4 + spaces_at(line, i + 4) + 5)
    THEN 4 + spaces_at(line, i + 4) + 5
    ELSE 0

\* part1 + part2 of the pair matched at position i
combined_at(line, i) ==
    SubSeq(line, i, i + 3) \o SubSeq(line, i + pair_at(line, i) - 5, i + pair_at(line, i) - 1)

\* `for part1, part2 in spaced_matches`, from position i on
RECURSIVE ident_of_pairs(_, _)
ident_of_pairs(line, i) ==
    IF i > Len(line) THEN None
    ELSE IF pair_at(line, i) = 0 THEN ident_of_pairs(line, i + 1)
    ELSE IF startswith(combined_at(line, i), "20") THEN combined_at(line, i)
    ELSE ident_of_pairs(line, i + pair_at(line, i))

\* `for part1, part2 in other_spaced` (r'\b(20\d{2})\s+(\d{5})\b'): the first
\* match is returned
RECURSIVE ident_of_other_pairs(_, _)
ident_of_other_pairs(line, i) ==
    IF i > Len(line) THEN None
    ELSE IF pair_at(line, i) # 0 /\ SubSeq(line, i, i + 1) = "20"
    THEN combined_at(line, i)
    ELSE ident_of_other_pairs(line, i + 1)

\* the body of `for line in lines` of _extract_identifiant
ident_of_line(line) ==
    IF ident_of_runs(line, 1) # None THEN ident_of_runs(line, 1)
    ELSE IF ident_of_pairs(line, 1) # None THEN ident_of_pairs(line, 1)
    ELSE ident_of_other_pairs(line, 1)

RECURSIVE ident_of_lines(_, _)
ident_of_lines(lines, k) ==
    IF k > Len(lines) THEN None
    ELSE IF ident_of_line(lines[k]) # None THEN ident_of_line(lines[k])
    ELSE ident_of_lines(lines, k + 1)

\* _extract_identifiant
extract_identifiant(text) == ident_of_lines(first_lines(text), 1)

\* the labels that end a value in the pattern of _extract_field_value
value_end_labels ==
    <<"Tel", "Email", "Pays", "Ville", "City", "Country", "Phone", "Nom", "Prénom",
      "Date", "Profession", "First name", "Last name">>

\* the text at position i is the word, whatever the case (re.IGNORECASE)
word_at(line, i, word) ==
    /\ i + Len(word) - 1 <= Len(line)
    /\ lower(SubSeq(line, i, i + Len(word) - 1)) = lower(word)

\* (?:\s+(?:Tel|Email|...):|$) matches at position j
value_end_at(line, j) ==
    \/ j = Len(line) + 1
    \/ /\ spaces_at(line, j) > 0
       /\ \E k \in 1..Len(value_end_labels) :
             word_at(line, j + spaces_at(line, j), value_end_labels[k] \o ":")

\* the group ([^:]+?) of the pattern when it starts at position g: the
\* shortest non-empty text without ':' that is followed by the end of a
\* value; None when there is none
group_from(line, g) ==
    LET lengths == {n \in 1..(Len(line) - g + 1) :
                       /\ \A k \in g..(g + n - 1) : Char(line, k) # ":"
                       /\ value_end_at(line, g + n)}
    IN  IF lengths = {} THEN None
        ELSE SubSeq(line, g, g + SetMin(lengths) - 1)

\* the group of the pattern after the ':' at position c - 1: `\s*` takes the
\* whitespace that follows and gives it back, one character at a time, while
\* the rest does not match
RECURSIVE group_after_colon(_, _, _)
group_after_colon(line, c, w) ==
    IF group_from(line, c + w) # None THEN group_from(line, c + w)
    ELSE IF w = 0 THEN None
    ELSE group_after_colon(line, c, w - 1)

\* the group of the match of the pattern of a field that starts at position
\* i; None when the pattern does not match there
field_match_at(line, field, i) ==
    LET colon == i + Len(field) + spaces_at(line, i + Len(field))
    IN  IF /\ word_at(line, i, field)
           /\ colon <= Len(line)
           /\ Char(line, colon) = ":"
        THEN group_after_colon(line, colon + 1, spaces_at(line, colon + 1))
        ELSE None

\* re.search(pattern, line, re.IGNORECASE): the group of the leftmost match
RECURSIVE field_search(_, _, _)
field_search(line, field, i) ==
    IF i > Len(line) THEN None
    ELSE IF field_match_at(line, field, i) # None THEN field_match_at(line, field, i)
    ELSE field_search(line, field, i + 1)

\* [\w\s@./+-]
ValueChars == WordChars \cup Whitespace \cup {"@", ".", "/", "+", "-"}

\* re.sub(r'[^\w\s@./+-]+$', '', value)
RECURSIVE strip_trailing_punctuation(_)
strip_trailing_punctuation(value) ==
    IF value # "" /\ Char(value, Len(value)) \notin ValueChars
    THEN strip_trailing_punctuation(SubSeq(value, 1, Len(value) - 1))
    ELSE value

\* re.sub(r'\.$', '', value)
strip_trailing_dot(value) ==
    IF value # "" /\ Char(value, Len(value)) = "."
    THEN SubSeq(value, 1, Len(value) - 1) ELSE value

\* the value returned for a matched group
field_value_of(group) ==
    strip(strip_trailing_dot(strip_trailing_punctuation(strip(group))))

\* sorted(field_names, key=len, reverse=True): the longest first, names of
\* the same length in the order given
RECURSIVE sorted_by_length(_)
sorted_by_length(field_names) ==
    IF field_names = <<>> THEN <<>>
    ELSE LET longest == CHOOSE k \in 1..Len(field_names) :
                 /\ \A j \in 1..Len(field_names) :
                        Len(field_names[j]) <= Len(field_names[k])
                 /\ \A j \in 1..(k - 1) : Len(field_names[j]) < Len(field_names[k])
         IN  <<field_names[longest]>>
                 \o sorted_by_length(SubSeq(field_names, 1, longest - 1)
                        \o SubSeq(field_names, longest + 1, Len(field_names)))

\* `for field in field_names` on one line
RECURSIVE field_value_in_line(_, _, _)
field_value_in_line(line, field_names, k) ==
    IF k > Len(field_names) THEN None
    ELSE IF field_search(line, field_names[k], 1) # None
    THEN field_value_of(field_search(line, field_names[k], 1))
    ELSE field_value_in_line(line, field_names, k + 1)

RECURSIVE field_value_in_lines(_, _, _)
field_value_in_lines(lines, field_names, k) ==
    IF k > Len(lines) THEN None
    ELSE IF field_value_in_line(lines[k], field_names, 1) # None
    THEN field_value_in_line(lines[k], field_names, 1)
    ELSE field_value_in_lines(lines, field_names, k + 1)

\* _extract_field_value(text, field_names), field_names a list
extract_field_value(text, field_names) ==
    field_value_in_lines(split(text, "\n"), sorted_by_length(field_names), 1)

\* ------------------------------------------------------------------------
\* Calls of the data extractor
\* ------------------------------------------------------------------------

\* page texts for the identifier: runs of 7 to 12 digits, with leading zeros,
\* read with "6" for "20", split by spaces, glued to letters, on several
\* lines and below the fifth line
IdentifiantTexts ==
    {
     "202201005\nNom: Dupont", "N° 202201005", "62201005", "062201005",
     "0202201005", "00002022", "6123456789", "2022 01008", "1999 01008",
     "12345678\n202201005", "12345678 202201005", "a\nb\nc\nd\ne\n202201005",
     "a\nb\nc\nd\n202201005", "20220100512", "ID202201005", "2022010", "",
     "2022  01008", "30220100 2022 01008", "2022 01008\n202305011",
     "00000006", "0612345678", "2022 01008 202305011",
     "1999 01008 2023 05011", "20220100", "2022010051", "id_202201005",
     "2022 0100"}

ExtractIdentifiantCalls ==
    {Pending("extract_identifiant", [text |-> t]) : t \in IdentifiantTexts}

\* DataExtractor._extract_identifiant(text)
ExtractIdentifiant ==
    /\ call.fn = "extract_identifiant" /\ ~call.done
    /\ call' = [call EXCEPT !.done = TRUE] @@
               [result |-> extract_identifiant(call.args.text)]
    /\ UNCHANGED <<customers, customers_review, customer_files, next_id, calls,
                   last, pre, proc, batch>>

\* the label lists of _extract_studio_parfums_data, by field
field_names_of ==
    [prenom         |-> <<"prenom", "prénom", "first name">>,
     nom            |-> <<"nom", "last name", "name">>,
     date           |-> <<"date">>,
     ville          |-> <<"ville", "city">>,
     pays           |-> <<"pays", "country">>,
     tel            |-> <<"tel", "phone", "phone nb">>,
     email          |-> <<"email">>,
     profession     |-> <<"profession">>,
     date_naissance |-> <<"date de naissance", "date naissance", "birthday">>]

\* form texts: labels in French and in English, one or several on a line,
\* in both orders, with trailing punctuation, with an empty value
FieldTexts ==
    {
     "Nom: Dupont\nPrénom: Jean", "Prénom: Jean\nNom: Dupont",
     "Prenom: Jean\nNom: Dupont", "First name: John\nLast name: Smith",
     "Last name: Smith\nFirst name: John",
     "Nom: Dupont Prénom: Jean Tel: 06 12 34 56 78",
     "Prénom: Jean Nom: Dupont", "Ville: Paris Pays: France",
     "Email: jean@gmail.com.", "Tel : 0612345678, ",
     "Date: 01/02/2022\nDate de naissance: 03/04/1990",
     "Date de naissance: 03/04/1990\nDate: 01/02/2022", "Nom:   ",
     "Nom: Dupont: x", "Profession: Ingénieur!", "",
     "Phone nb: 0612345678\nCountry: France\nCity: Paris", "Name: Smith",
     "NOM : DUPONT  PRÉNOM : JEAN", "Nom:  Tel: 06"}

ExtractFieldCalls ==
    {Pending("extract_field_value", [text |-> t, field |-> f]) :
        t \in FieldTexts, f \in DOMAIN field_names_of}

\* DataExtractor._extract_field_value(text, field_names) as
\* _extract_studio_parfums_data calls it for a field
ExtractField ==
    /\ call.fn = "extract_field_value" /\ ~call.done
    /\ call' = [call EXCEPT !.done = TRUE] @@
               [result |-> extract_field_value(call.args.text,
                                               field_names_of[call.args.field])]
    /\ UNCHANGED <<customers, customers_review, customer_files, next_id, calls,
                   last, pre, proc, batch>>

\* ------------------------------------------------------------------------
\* Concurrent transfers: each request runs transfer_to_customers on a
\* connection of its own (autocommit), one store statement at a time
\* ------------------------------------------------------------------------

\* the review record both requests transfer
ConcReviewId == 1

\* the rows an ingestion leaves in customers_review: a form whose phone was
\* reformatted, with or without an email
ConcReviewRows ==
    {clean_data(MappedTable[c, svc].customer_data) @@ [type |-> "Modifié"] :
        <<c, svc>> \in
            {x \in Candidates \X ConcServiceAnswers :
                /\ x[1].pays = "FR"
                /\ x[1].tel = "0612345678"
                /\ x[1].email \in {None, "anne@gmail.com"}
                /\ x[1].prenom # None}}

\* the rows an ingestion leaves in customers: a form with an email and no phone
ConcCustomerRows ==
    {clean_data(MappedTable[c, svc].customer_data) :
        <<c, svc>> \in
            {x \in Candidates \X ConcServiceAnswers :
                /\ x[1].pays = "FR"
                /\ x[1].tel = None
                /\ x[1].email = "anne@gmail.com"
                /\ x[1].prenom # None}}

\* n files stored for the review record, in the pending directory
pending_files(n) ==
    [f \in 1..n |->
        [customer_id |-> NullId,
         customer_review_id |-> ConcReviewId,
         file_path |-> stored_path(NullId, "f" \o ToString(f) \o ".pdf")]]

\* a store after ingestions and file creations: one review record with up to
\* MaxFiles files, and no customer or one customer
InitConcTransfer ==
    /\ \E review \in ConcReviewRows : customers_review = (ConcReviewId :> review)
    /\ \/ customers = <<>>
       \/ \E customer \in ConcCustomerRows : customers = (1 :> customer)
    /\ \E n \in 0..MaxFiles : customer_files = pending_files(n)
    /\ next_id = [customers |-> Cardinality(DOMAIN customers) + 1,
                  customers_review |-> ConcReviewId + 1,
                  customer_files |-> Cardinality(DOMAIN customer_files) + 1]
    /\ calls = [ingest |-> 0, file |-> 0, transfer |-> 0, update |-> 0, delete |-> 0]
    /\ last = [op |-> "none"]
    /\ pre = <<>>
    /\ proc = [w \in Workers |-> IdleProc]
    /\ batch = [endpoint |-> "none"]
    /\ call = [fn |-> "none"]

\* a request that has returned: its status and the customer id it answers
finished(status, customer_id, created) ==
    [pc |-> "done", status |-> status, customer_id |-> customer_id,
     created |-> created]

\* transfer_customer_review: get_customer_review_by_id answers 404 when the
\* review record does not exist, else transfer_to_customers is called
begin_transfer(w, review_id) ==
    /\ proc[w].pc = "idle"
    /\ calls.transfer < MaxTransfer
    /\ proc' = [proc EXCEPT ![w] =
                   IF review_id \in DOMAIN customers_review
                   THEN [pc |-> "load", review_id |-> review_id]
                   ELSE finished(404, NullId, NullId)]
    /\ calls' = [calls EXCEPT !.transfer = @ + 1]
    /\ UNCHANGED <<batch, call, customers, customers_review, customer_files, next_id,
                   last, pre>>

\* 1. SELECT * FROM customers_review WHERE id = %s; None is returned when
\* there is no row, and the endpoint answers 500
step_select_review(w) ==
    /\ proc[w].pc = "load"
    /\ proc' = [proc EXCEPT ![w] =
                   IF proc[w].review_id \in DOMAIN customers_review
                   THEN LET review_data == customers_review[proc[w].review_id]
                        IN  [pc |-> IF Truthy(review_data.email)
                                    THEN "lookup" ELSE "insert",
                             review_id |-> proc[w].review_id,
                             review_data |-> review_data]
                   ELSE finished(500, NullId, NullId)]
    /\ UNCHANGED <<batch, call, customers, customers_review, customer_files, next_id,
                   calls, last, pre>>

\* 2. SELECT id FROM customers WHERE email = %s LIMIT 1
step_select_customer(w, existing) ==
    /\ proc[w].pc = "lookup"
    /\ existing \in
           LET matches == {id \in DOMAIN customers :
                              customers[id].email = proc[w].review_data.email}
           IN  IF matches = {} THEN {NullId} ELSE matches
    /\ proc' = [proc EXCEPT ![w] =
                   IF existing # NullId
                   THEN [pc |-> "files", review_id |-> proc[w].review_id,
                         review_data |-> proc[w].review_data,
                         customer_id |-> existing, created |-> NullId]
                   ELSE [proc[w] EXCEPT !.pc = "insert"]]
    /\ UNCHANGED <<batch, call, customers, customers_review, customer_files, next_id,
                   calls, last, pre>>

\* 3b. INSERT INTO customers; customer_id = cursor.lastrowid
step_insert_customer(w) ==
    /\ proc[w].pc = "insert"
    /\ customers' = customers @@
           (next_id.customers :> promoted_row(proc[w].review_data))
    /\ next_id' = [next_id EXCEPT !.customers = @ + 1]
    /\ proc' = [proc EXCEPT ![w] =
                   [pc |-> "files", review_id |-> proc[w].review_id,
                    review_data |-> proc[w].review_data,
                    customer_id |-> next_id.customers,
                    created |-> next_id.customers]]
    /\ UNCHANGED <<batch, call, customers_review, customer_files, calls, last, pre>>

\* crud_customer_file.transfer_files_to_customer(connection, review_id, id)
step_transfer_files(w) ==
    /\ proc[w].pc = "files"
    /\ customer_files' =
           transfer_files_to_customer(customer_files, proc[w].review_id,
                                      proc[w].customer_id, FALSE)
    /\ proc' = [proc EXCEPT ![w].pc = "move"]
    /\ UNCHANGED <<batch, call, customers, customers_review, next_id, calls, last, pre>>

\* the files listed by the request (by review record when it merges, by
\* customer when it has inserted one) are moved out of the pending directory
step_move_files(w) ==
    /\ proc[w].pc = "move"
    /\ customer_files' =
           move_listed_files(customer_files,
               IF proc[w].created = NullId
               THEN {f \in DOMAIN customer_files :
                        customer_files[f].customer_review_id = proc[w].review_id}
               ELSE {f \in DOMAIN customer_files :
                        customer_files[f].customer_id = proc[w].customer_id},
               proc[w].customer_id, "none")
    /\ proc' = [proc EXCEPT ![w].pc = "delete"]
    /\ UNCHANGED <<batch, call, customers, customers_review, next_id, calls, last, pre>>

\* DELETE FROM customers_review WHERE id = %s; the customer id is returned
step_delete_review(w) ==
    /\ proc[w].pc = "delete"
    /\ customers_review' = delete_row(customers_review, proc[w].review_id)
    /\ proc' = [proc EXCEPT ![w] =
                   finished(200, proc[w].customer_id, proc[w].created)]
    /\ UNCHANGED <<batch, call, customers, customer_files, next_id, calls, last, pre>>

BeginTransfer == \E w \in Workers : begin_transfer(w, ConcReviewId)

LoadReview == \E w \in Workers : step_select_review(w)

LookupEmail ==
    \E w \in Workers, existing \in {NullId} \cup DOMAIN customers :
        step_select_customer(w, existing)

InsertCustomer == \E w \in Workers : step_insert_customer(w)

RepointFiles == \E w \in Workers : step_transfer_files(w)

MoveFiles == \E w \in Workers : step_move_files(w)

DeleteReview == \E w \in Workers : step_delete_review(w)
\* ------------------------------------------------------------------------
\* Specifications
\* ------------------------------------------------------------------------

\* ingestions of every candidate, one after the other
Next == Ingest

Spec == Init /\ [][Next]_vars

\* ingestions, file attachments and transfers, one after the other
NextStore == StoreIngest \/ CreateFile \/ Transfer

SpecStore == Init /\ [][NextStore]_vars

\* ingestions, file attachments, transfers and deletions, one after the other
NextFiles ==
    \/ StoreIngest
    \/ CreateFile
    \/ Transfer
    \/ DeleteCustomerReview
    \/ DeleteCustomer

SpecFiles == Init /\ [][NextFiles]_vars

\* ingestions and transfers, one after the other, from an empty store
NextDedup == DedupIngest \/ Transfer

SpecDedup == Init /\ [][NextDedup]_vars

\* two requests ingesting concurrently, interleaved statement by statement
NextConc == BeginIngestion \/ CheckEmail \/ CheckPhone \/ Insert

SpecConc == Init /\ [][NextConc]_vars

\* two requests transferring the same review record concurrently,
\* interleaved statement by statement
NextConcTransfer ==
    \/ BeginTransfer
    \/ LoadReview
    \/ LookupEmail
    \/ InsertCustomer
    \/ RepointFiles
    \/ MoveFiles
    \/ DeleteReview

SpecConcTransfer == InitConcTransfer /\ [][NextConcTransfer]_vars


\* ingestions and updates with validation, one after the other
NextUpdate == StoreIngest \/ UpdateReview \/ UpdateCustomer

SpecUpdate == Init /\ [][NextUpdate]_vars

\* a document processed page by page by either endpoint
NextBatch == ProcessPageJson \/ ProcessPageCsv \/ FinishCsv

SpecBatch == InitBatch /\ [][NextBatch]_vars

\* one call of a normalizer or of the classifier, on every input of the model
InitNormalizers ==
    /\ EmptyStore
    /\ batch = [endpoint |-> "none"]
    /\ call \in NormalizerCalls

NextNormalizers ==
    VerifyPhone \/ Classify \/ ValidatePhone \/ CorrectEmail \/ CorrectEmailAgain
        \/ CorrectCountry

SpecNormalizers == InitNormalizers /\ [][NextNormalizers]_vars

InitCsv ==
    /\ EmptyStore
    /\ batch = [endpoint |-> "none"]
    /\ call \in GenerateCsvCalls \cup CleanIdentifiantCalls

NextCsv == GenerateCsv \/ CleanIdentifiant

SpecCsv == InitCsv /\ [][NextCsv]_vars

InitExtract ==
    /\ EmptyStore
    /\ batch = [endpoint |-> "none"]
    /\ call \in ExtractIdentifiantCalls \cup ExtractFieldCalls

NextExtract == ExtractIdentifiant \/ ExtractField

SpecExtract == InitExtract /\ [][NextExtract]_vars
\* ------------------------------------------------------------------------
\* Routing of one ingested candidate (specification Spec)
\* ------------------------------------------------------------------------

\* the rows the last ingestion inserted
InsertedCustomers == DOMAIN customers \ last.customers_before

InsertedReviews == DOMAIN customers_review \ last.reviews_before

\* the last ingestion inserted exactly one row, a review row of type t
RoutedToReview(t) ==
    /\ InsertedCustomers = {}
    /\ Cardinality(InsertedReviews) = 1
    /\ \A r \in InsertedReviews : customers_review[r].type = t

\* the last ingestion inserted exactly one row, a customers row
RoutedToCustomers ==
    /\ InsertedReviews = {}
    /\ Cardinality(InsertedCustomers) = 1

\* what the normalizers answered for the candidate of the last ingestion
InvalidLength ==
    PhoneValidationTable[last.extracted_data].error_type = "invalid_length"

PhoneWasModified == PhoneValidationTable[last.extracted_data].was_modified

EmailWasCorrected == EmailCorrectionTable[last.extracted_data].was_corrected

\* the normalized email / phone of the candidate equals that of a customer
\* that existed before the ingestion
MailMatch ==
    Truthy(last.mapped.customer_data.email) /\ last.email_exists

PhoneMatch ==
    Truthy(last.mapped.customer_data.phone) /\ last.phone_exists

\* C1: a call of insert_customer_if_not_exists inserts at most one row in
\* total across customers and customers_review, whatever the candidate, the
\* answers of the normalizers and services, the store contents and the
\* statement that fails.
C1_AtMostOneRow ==
    last.op = "ingest" =>
        Cardinality(InsertedCustomers) + Cardinality(InsertedReviews) <= 1

\* a candidate ingested into a non-empty store and routed to review
C1_Witness ==
    /\ last.op = "ingest"
    /\ last.customers_before # {}
    /\ Cardinality(InsertedReviews) = 1
    /\ InsertedCustomers = {}

\* C2: the destination is decided in a fixed order.  A candidate whose phone
\* validation returned invalid_length is inserted in customers_review with
\* type "Erreur - Numéro", also when its email was corrected or it duplicates
\* a customer; otherwise a candidate whose email was corrected is inserted in
\* customers_review with type "Modifié", also when it duplicates a customer.
\* (In a call whose insert fails nothing is inserted.)
C2_FixedOrder ==
    last.op = "ingest" =>
        /\ InvalidLength =>
              IF last.ret_id # NullId THEN RoutedToReview("Erreur - Numéro")
              ELSE last.fault \in {"connection", "insert"}
        /\ (~InvalidLength /\ EmailWasCorrected) =>
              IF last.ret_id # NullId THEN RoutedToReview("Modifié")
              ELSE last.fault \in {"connection", "insert"}

\* an invalid-length phone with a corrected email that duplicates a customer
C2_Witness ==
    /\ last.op = "ingest"
    /\ InvalidLength
    /\ EmailWasCorrected
    /\ MailMatch
    /\ RoutedToReview("Erreur - Numéro")

\* the three duplicate types are given exactly by the two matches, and a
\* duplicate creates one review row and no customers row
DuplicateTypesExact ==
    /\ (\E r \in InsertedReviews : customers_review[r].type = "Doublon - Mail")
           <=> (MailMatch /\ ~PhoneMatch)
    /\ (\E r \in InsertedReviews : customers_review[r].type = "Doublon - Phone")
           <=> (PhoneMatch /\ ~MailMatch)
    /\ (\E r \in InsertedReviews : customers_review[r].type = "Doublon - Mail et Phone")
           <=> (MailMatch /\ PhoneMatch)
    /\ (MailMatch \/ PhoneMatch) =>
           /\ Cardinality(InsertedReviews) = 1
           /\ InsertedCustomers = {}

C4_AsStated ==
    (/\ last.op = "ingest"
     /\ last.fault = "none"
     /\ ~InvalidLength
     /\ ~EmailWasCorrected
     /\ ~MailMatch
     /\ ~PhoneMatch)
        => RoutedToCustomers

\* C4: when the phone is not invalid-length and was not reformatted by the
\* phone validator, the email was not corrected and neither email nor phone
\* matches a customer, exactly one customers row and no review row is
\* inserted, also when every extracted field is empty (every store statement
\* of the call succeeding).
C4_NewCustomer ==
    (/\ last.op = "ingest"
     /\ last.fault = "none"
     /\ ~InvalidLength
     /\ ~PhoneWasModified
     /\ ~EmailWasCorrected
     /\ ~MailMatch
     /\ ~PhoneMatch)
        => RoutedToCustomers

\* a candidate whose extracted fields are all empty, inserted as a customer
C4_Witness ==
    /\ last.op = "ingest"
    /\ \A k \in DOMAIN last.extracted_data : last.extracted_data[k] = None
    /\ RoutedToCustomers
    /\ \A c \in InsertedCustomers :
           \A k \in DOMAIN customers[c] : customers[c][k] = None

\* C5 as stated: the review row created with type "Erreur - Numéro" for an
\* invalid-length phone keeps the phone as the non-empty digits-only string
\* obtained from the extracted phone.
C5_AsStated ==
    (last.op = "ingest" /\ InvalidLength /\ last.ret_id # NullId) =>
        \A r \in InsertedReviews :
            /\ customers_review[r].phone # None
            /\ customers_review[r].phone = clean_phone_number(last.extracted_data.tel)

\* ------------------------------------------------------------------------
\* Transfer of a review record (specification SpecStore)
\* ------------------------------------------------------------------------

\* the last call was a transfer of a review record that existed
TransferOfReview ==
    last.op = "transfer" /\ last.review_id \in DOMAIN pre.customers_review

\* the customers whose email equals the non-empty email of the review record
\* of the last transfer, before the transfer
MatchingCustomers ==
    LET email == pre.customers_review[last.review_id].email
    IN  IF Truthy(email)
        THEN {c \in DOMAIN pre.customers : pre.customers[c].email = email}
        ELSE {}

\* the file rows that referenced the review record before the last transfer
FilesOfReview ==
    {f \in DOMAIN pre.customer_files :
        pre.customer_files[f].customer_review_id = last.review_id}

\* every file row of the review record references customer_id, with its
\* review reference cleared
FilesRepointedTo(customer_id) ==
    \A f \in FilesOfReview :
        /\ customer_files[f].customer_id = customer_id
        /\ customer_files[f].customer_review_id = NullId

\* C6 as stated: a transfer that returns an id for a review record whose
\* non-empty email equals that of an existing customer creates no customers
\* row, leaves every file row of the review record referencing that customer
\* with its review reference cleared, deletes the review record and returns
\* the existing customer's id.
C6_AsStated ==
    (TransferOfReview /\ MatchingCustomers # {} /\ last.ret_id # NullId) =>
        /\ DOMAIN customers = DOMAIN pre.customers
        /\ last.ret_id \in MatchingCustomers
        /\ FilesRepointedTo(last.ret_id)
        /\ last.review_id \notin DOMAIN customers_review

\* C7 as stated: a transfer that returns an id for a review record whose
\* email is empty or matches no customer creates exactly one customers row,
\* whose fields equal those of the review record other than id, timestamps
\* and type, leaves every file row of the review record referencing the new
\* customer, deletes the review record and returns the new customer's id.
C7_AsStated ==
    (TransferOfReview /\ MatchingCustomers = {} /\ last.ret_id # NullId) =>
        /\ DOMAIN customers \ DOMAIN pre.customers = {last.ret_id}
        /\ \A c \in DOMAIN pre.customers : customers[c] = pre.customers[c]
        /\ \A k \in DOMAIN pre.customers_review[last.review_id] \ {"type"} :
               customers[last.ret_id][k] = pre.customers_review[last.review_id][k]
        /\ FilesRepointedTo(last.ret_id)
        /\ last.review_id \notin DOMAIN customers_review

\* C8 as stated: a transfer is atomic.  When a step of it fails the review
\* record still exists, and then the store equals the store before the
\* transfer: no new customers row persists and no file row was re-pointed or
\* given another path.
C8_AsStated ==
    (TransferOfReview /\ last.review_id \in DOMAIN customers_review) =>
        /\ customers = pre.customers
        /\ customers_review = pre.customers_review
        /\ customer_files = pre.customer_files

\* C9 as stated: once a transfer has deleted a review record, no file row
\* references that review record, also when the re-pointing of the file rows
\* reported a failure.
C9_AsStated ==
    (TransferOfReview /\ last.review_id \notin DOMAIN customers_review) =>
        \A f \in DOMAIN customer_files :
            customer_files[f].customer_review_id # last.review_id

\* ------------------------------------------------------------------------
\* Concurrent ingestions (specification SpecConc)
\* ------------------------------------------------------------------------

\* C10 as stated: two concurrent ingestions of candidates with the same
\* normalized email (or phone) never both insert a customers row: at most
\* one customers row carries a given non-empty email, and a given non-empty
\* phone.
C10_AsStated ==
    \A a, b \in DOMAIN customers :
        a # b =>
            /\ ~(Truthy(customers[a].email) /\ customers[a].email = customers[b].email)
            /\ ~(Truthy(customers[a].phone) /\ customers[a].phone = customers[b].phone)


\* ------------------------------------------------------------------------
\* Normalization of one candidate (specification Spec)
\* ------------------------------------------------------------------------

\* the raw country of the last candidate is not itself a key of PHONE_RULES
\* (a code or a misspelling) and is corrected to a country that has rules
RawCountryOfSupported ==
    /\ Truthy(safe_strip(last.extracted_data.pays))
    /\ safe_strip(last.extracted_data.pays) \notin DOMAIN PHONE_RULES
    /\ last.mapped.customer_data.country \in DOMAIN PHONE_RULES

\* C11: the phone of a candidate is validated after the country is corrected
\* and under the corrected country.  For a candidate with a phone whose raw
\* country is a code or misspelling of a supported country ("FR"), the phone
\* is judged by that country's rules: a digit count outside its range gives
\* the error "Erreur - Numéro" (invalid_length, not no_country), and a digit
\* count inside it gives the phone grouped by the country's format.
C11_CorrectedCountryFirst ==
    (last.op = "ingest" /\ Truthy(safe_strip(last.extracted_data.tel))
        /\ RawCountryOfSupported) =>
        LET digits  == clean_phone_number(last.extracted_data.tel)
            country == last.mapped.customer_data.country
            rules   == PHONE_RULES[country]
        IN  IF Len(digits) < rules.min_digits \/ Len(digits) > rules.max_digits
            THEN last.mapped.phone_error = "Erreur - Numéro"
            ELSE /\ last.mapped.phone_error # "Erreur - Numéro"
                 /\ last.mapped.customer_data.phone
                        = format_phone_number(digits, country)
                 /\ last.mapped.customer_data.phone # digits

\* the candidate with country "FR" and the 6-digit phone "061234", refused
\* for its length under the rules of France
C11_Witness ==
    /\ last.op = "ingest"
    /\ last.extracted_data.pays = "FR"
    /\ last.extracted_data.tel = "061234"
    /\ last.mapped.customer_data.country = "France"
    /\ last.mapped.phone_error = "Erreur - Numéro"

\* ------------------------------------------------------------------------
\* Transfer of a review record that does not exist (specification SpecStore)
\* ------------------------------------------------------------------------

\* the HTTP status of the endpoint transfer_customer_review for the last
\* transfer: 404 when get_customer_review_by_id finds no row, 500 when the
\* transfer returns no id
transfer_customer_review ==
    IF last.review_id \notin DOMAIN pre.customers_review THEN "404"
    ELSE IF last.ret_id = NullId THEN "500"
    ELSE "200"

\* C12: a transfer of a review id that is not in customers_review (never
\* created, or already transferred) returns no id, is answered 404 and leaves
\* customers, customers_review and customer_files as they were; and a
\* transfer that returns an id has deleted its review record, so that a
\* second transfer of the same id is such a transfer and creates no row.
C12_NotFound ==
    last.op = "transfer" =>
        /\ last.review_id \notin DOMAIN pre.customers_review =>
              /\ last.ret_id = NullId
              /\ last.path \in {"not_found", "error"}
              /\ transfer_customer_review = "404"
              /\ customers = pre.customers
              /\ customers_review = pre.customers_review
              /\ customer_files = pre.customer_files
        /\ last.ret_id # NullId => last.review_id \notin DOMAIN customers_review

\* the second transfer of a review record that was created and has already
\* been transferred: not found, with the customer of the first transfer there
C12_Witness ==
    /\ last.op = "transfer"
    /\ calls.transfer = 2
    /\ last.review_id < next_id.customers_review
    /\ last.review_id \notin DOMAIN pre.customers_review
    /\ last.fault = "none"
    /\ last.path = "not_found"
    /\ customers # <<>>

\* ------------------------------------------------------------------------
\* Update with validation (specification SpecUpdate)
\* ------------------------------------------------------------------------

\* the row the last update addressed, before and after the update
StoredBefore ==
    IF last.op = "update_review" THEN pre.customers_review[last.id]
    ELSE pre.customers[last.id]

StoredAfter ==
    IF last.op = "update_review" THEN customers_review[last.id]
    ELSE customers[last.id]

\* the last call was an update with validation of a row that exists
UpdateOfRow ==
    /\ last.op \in {"update_review", "update_customer"}
    /\ last.id \in DOMAIN (IF last.op = "update_review"
                          THEN pre.customers_review ELSE pre.customers)

\* the payload of the last update has the field with a value different from
\* the stored one
PayloadChanges(field) ==
    /\ field \in DOMAIN last.customer_data
    /\ last.customer_data[field] # StoredBefore[field]

\* C13: in an update with validation of a review record or a customer, the
\* email checks (domain correction, MX check, deliverability check) run only
\* if the payload has 'email' with a value different from the stored one, and
\* the phone check runs only if the payload has 'phone' with a value
\* different from the stored one.  An update whose payload changes the phone
\* and not the email runs no email check and leaves the stored email,
\* verified_email and verified_domain as they were; an update whose payload
\* changes the email and not the phone runs no phone check and leaves the
\* stored phone and verified_phone as they were.
C13_OnlyChangedFields ==
    UpdateOfRow =>
        /\ last.checks \cap EmailChecks # {} => PayloadChanges("email")
        /\ last.checks \cap PhoneChecks # {} => PayloadChanges("phone")
        /\ (PayloadChanges("phone") /\ ~PayloadChanges("email")) =>
              /\ last.checks \cap EmailChecks = {}
              /\ StoredAfter.email = StoredBefore.email
              /\ StoredAfter.verified_email = StoredBefore.verified_email
              /\ StoredAfter.verified_domain = StoredBefore.verified_domain
        /\ (PayloadChanges("email") /\ ~PayloadChanges("phone")) =>
              /\ last.checks \cap PhoneChecks = {}
              /\ StoredAfter.phone = StoredBefore.phone
              /\ StoredAfter.verified_phone = StoredBefore.verified_phone

\* a review record with a verified email whose phone alone is changed by a
\* payload that repeats the stored email: the phone check ran, the row has the
\* new phone and its email fields are the stored ones
C13_Witness ==
    /\ UpdateOfRow
    /\ last.op = "update_review"
    /\ StoredBefore.email = "anne@gmail.com"
    /\ "email" \in DOMAIN last.customer_data
    /\ last.customer_data.email = StoredBefore.email
    /\ PayloadChanges("phone")
    /\ last.checks = PhoneChecks
    /\ StoredAfter.phone = last.customer_data.phone
    /\ StoredAfter.phone # StoredBefore.phone
    /\ StoredAfter.verified_email = StoredBefore.verified_email

\* ------------------------------------------------------------------------
\* Batch resilience (specification SpecBatch)
\* ------------------------------------------------------------------------

\* every page of the document has been handled
BatchDone == batch.endpoint # "none" /\ batch.next > Len(batch.pages)

\* the fields of a ProcessedPage
PageFields ==
    {"page_number", "document_type", "confidence", "raw_text", "extracted_data"}

\* C14 as stated: for a document of N pages in which the OCR call fails on
\* any subset of pages, the list of processed pages has exactly N entries
\* numbered 1..N in order; each failed page is present with document type
\* UNKNOWN, confidence 0.0 and a raw_text that carries the error description;
\* the entry of every other page is the one it has when no page fails.
C14_AsStated ==
    BatchDone =>
        /\ Len(batch.processed_pages) = Len(batch.pages)
        /\ \A i \in 1..Len(batch.processed_pages) :
              LET entry == batch.processed_pages[i]
                  page  == batch.pages[entry.page_number]
              IN  /\ entry.page_number = i
                  /\ IF page.ocr = "ok"
                     THEN \A k \in PageFields :
                              entry[k] = processed_page(i, page.raw_text)[k]
                     ELSE /\ entry.document_type = UNKNOWN
                          /\ entry.confidence = 0
                          /\ InText(page.error, entry.raw_text)

\* the same property for the endpoint upload_pdf_for_ocr alone
JsonBatchComplete == batch.endpoint = "upload-pdf" => C14_AsStated

\* ------------------------------------------------------------------------
\* Phone intelligence check (specification SpecNormalizers)
\* ------------------------------------------------------------------------

\* the last call made is a call of fn
Called(fn) == call.fn = fn /\ call.done

\* the exchange gave a successful response that carries a validity flag
SuccessfulResponse(response) ==
    /\ response.kind = "response"
    /\ response.status_code = 200
    /\ "valid" \in DOMAIN response.data
    /\ response.data.valid \in {"True", "False"}

\* C15 as stated: verify_phone_number returns the validity flag of the
\* service only for a successful response, and returns null (never false) for
\* every error, timeout, rate limit, status other than 200 and otherwise
\* ambiguous response.
C15_AsStated ==
    (Called("verify_phone_number") /\ call.args.phone \notin {"", " -"}) =>
        IF SuccessfulResponse(call.args.response)
        THEN call.result = call.args.response.data.valid
        ELSE call.result = None

\* ------------------------------------------------------------------------
\* Document classifier (specification SpecNormalizers)
\* ------------------------------------------------------------------------

\* C16: for the two scores s (form) and b (blank sheet) computed from the
\* text, each between 0 and 1, classify_document returns the form type
\* exactly when s > b and s > 0.3, the blank-sheet type exactly when b > s
\* and b > 0.3, and UNKNOWN otherwise, ties included; the confidence is the
\* larger of the two scores, so it lies between 0 and 1 and is above 0.3
\* whenever the type is not UNKNOWN.  (Scores in hundredths.)
C16_Decision ==
    Called("classify_document") =>
        LET s == call.result.studio_score
            b == call.result.blank_score
            document_type == call.result.document_type
            confidence == call.result.confidence
        IN  /\ s \in 0..100 /\ b \in 0..100
            /\ document_type \in {STUDIO_PARFUMS, BLANK_SHEET, UNKNOWN}
            /\ document_type = STUDIO_PARFUMS <=> (s > b /\ s > 30)
            /\ document_type = BLANK_SHEET <=> (b > s /\ b > 30)
            /\ s = b => document_type = UNKNOWN
            /\ confidence = (IF s >= b THEN s ELSE b)
            /\ confidence \in 0..100
            /\ document_type # UNKNOWN => confidence > 30

\* a text with the title of the form and every keyword of the blank sheet:
\* both scores are 1.0 and the type is UNKNOWN with confidence 1.0
C16_Witness ==
    /\ Called("classify_document")
    /\ call.result.studio_score = 100
    /\ call.result.blank_score = 100
    /\ call.result.document_type = UNKNOWN
    /\ call.result.confidence = 100

\* ------------------------------------------------------------------------
\* Phone format validator (specification SpecNormalizers)
\* ------------------------------------------------------------------------

\* C17: for a non-empty phone with at least one digit, validate_phone_number
\* returns (digits of the phone, false, "no_country") when the country is
\* null or has no rules; (null, false, "invalid_length") when the number of
\* digits is outside the range of the country; and otherwise (formatted,
\* was_modified, null), where formatted is the digits grouped by the rules of
\* the country and was_modified is true exactly when formatted differs from
\* the phone as given.  ("0612345678", "France") gives ("06 12 34 56 78",
\* true, null) and ("061234", "France") gives (null, false, "invalid_length").
C17_ValidatePhone ==
    Called("validate_phone_number") =>
        LET phone   == call.args.phone
            country == call.args.country
            digits  == clean_phone_number(phone)
            result  == call.result
        IN  /\ digits # ""
            /\ IF ~Truthy(country) \/ country \notin DOMAIN PHONE_RULES
               THEN result = [phone |-> digits, was_modified |-> FALSE,
                              error_type |-> "no_country"]
               ELSE IF Len(digits) < PHONE_RULES[country].min_digits
                          \/ Len(digits) > PHONE_RULES[country].max_digits
               THEN result = [phone |-> None, was_modified |-> FALSE,
                              error_type |-> "invalid_length"]
               ELSE /\ result.error_type = None
                    /\ result.phone = format_phone_number(digits, country)
                    /\ result.was_modified <=> (result.phone # phone)
            /\ (phone = "0612345678" /\ country = "France") =>
                   result = [phone |-> "06 12 34 56 78", was_modified |-> TRUE,
                             error_type |-> None]
            /\ (phone = "555-123-4567" /\ country = "États-Unis") =>
                   result = [phone |-> "555-123-4567", was_modified |-> FALSE,
                             error_type |-> None]
            /\ (phone = "061234" /\ country = "France") =>
                   result = [phone |-> None, was_modified |-> FALSE,
                             error_type |-> "invalid_length"]

\* a phone given already in the format of its country: returned as it is,
\* with was_modified false
C17_Witness ==
    /\ Called("validate_phone_number")
    /\ call.args.phone = "06 12 34 56 78"
    /\ call.args.country = "France"
    /\ call.result = [phone |-> "06 12 34 56 78", was_modified |-> FALSE,
                      error_type |-> None]

\* ------------------------------------------------------------------------
\* Email domain corrector (specification SpecNormalizers)
\* ------------------------------------------------------------------------

\* correct_email has been applied to the email and then to the email it
\* returned
CalledTwice == Called("correct_email") /\ "again" \in DOMAIN call

\* C18: email correction is idempotent: correcting the email that
\* correct_email returned gives that same email again, and this second
\* application reports was_corrected = false.
C18_AsStated ==
    CalledTwice =>
        /\ call.again.email = call.result.email
        /\ call.again.was_corrected = FALSE

\* the part of C18 about the email alone: the email returned by the second
\* application is the email returned by the first
CorrectedEmailIsFixedPoint ==
    CalledTwice => call.again.email = call.result.email

\* the domain of an email, as correct_email splits it: what follows the last '@'
DomainOf(email) == SubSeq(email, LastIndex(email, "@") + 1, Len(email))

\* the extension of a domain: what follows its last '.'
ExtensionOf(domain) == SubSeq(domain, LastIndex(domain, ".") + 1, Len(domain))

\* the closest known provider within distance 2 of the domain of each email of
\* the model, with that distance (None and Inf when there is none)
ClosestProvider ==
    [e \in {x \in CorrectorEmails : Contains(x, "@")} |->
        BestMatch(lower(DomainOf(e)), POPULAR_DOMAINS, 2, None, Inf)]

Unchanged(email) == [email |-> email, was_corrected |-> FALSE, original_domain |-> None]

\* C19: whole-domain correction replaces the domain by the closest known
\* provider only when the domain is not itself a known provider, its
\* Levenshtein distance d to that provider is at most 2 and it is judged a
\* typo (d = 1 always; with d = 2 not when the domain has a hyphen or more
\* than 20 characters).  So an email whose domain is a known provider, or
\* whose domain has a known extension and is further than 2 from every
\* provider, comes back unchanged with was_corrected = false and no original
\* domain, and "user@gmil.com" gives ("user@gmail.com", true, "gmil.com").
C19_AsStated ==
    (Called("correct_email") /\ Contains(call.args.email, "@")) =>
        LET email   == call.args.email
            domain  == lower(DomainOf(email))
            closest == ClosestProvider[email]
            result  == call.result
        IN  /\ InList(domain, POPULAR_DOMAINS) => result = Unchanged(email)
            /\ (InList(ExtensionOf(domain), POPULAR_EXTENSIONS) /\ closest[1] = None)
                   => result = Unchanged(email)
            /\ (closest[2] = 2 /\ (Contains(domain, "-") \/ Len(domain) > 20))
                   => result = Unchanged(email)
            /\ (/\ InList(ExtensionOf(domain), POPULAR_EXTENSIONS)
                /\ ~InList(domain, POPULAR_DOMAINS)
                /\ closest[1] # None
                /\ closest[2] = 1 \/ ~(Contains(domain, "-") \/ Len(domain) > 20))
                   => /\ result.was_corrected
                      /\ DomainOf(result.email) = closest[1]
            /\ email = "user@gmil.com" =>
                   result = [email |-> "user@gmail.com", was_corrected |-> TRUE,
                             original_domain |-> "gmil.com"]

\* C19 on every email of the model but the one at the provider proton.me
WholeDomainCorrectionButProtonMe ==
    (Called("correct_email") /\ call.args.email = "user@proton.me") \/ C19_AsStated

\* C18 on every email of the model but those corrected to the provider proton.me
IdempotentButProtonMe ==
    (CalledTwice /\ DomainOf(call.result.email) = "proton.me") \/ C18_AsStated

\* ------------------------------------------------------------------------
\* Country corrector (specification SpecNormalizers)
\* ------------------------------------------------------------------------

\* the Levenshtein distance of each country of the model, stripped and
\* lowercased, to every canonical name, lowercased
CanonicalDistance ==
    [c \in CountryInputs |->
        [k \in DOMAIN VALID_COUNTRIES |->
            levenshtein_distance(lower(strip(c)), lower(VALID_COUNTRIES[k]))]]

\* C20: correct_country tries its steps in a fixed order and the first one
\* that succeeds decides: (1) a canonical name is returned with
\* was_corrected = false; (2) else a token of 2 or 3 letters found in the
\* table of ISO codes gives the canonical name with true; (3) else a known
\* variant gives the canonical name with true; (4) else the canonical name at
\* the lowest Levenshtein distance, at most 2, is returned with true; when no
\* step succeeds the stripped input is returned with false.  "France" gives
\* ("France", false), "FR" and "Frence" give ("France", true).
C20_FirstStepWins ==
    Called("correct_country") =>
        LET country  == call.args.country
            stripped == strip(country)
            distance == CanonicalDistance[country]
            result   == call.result
        IN  /\ IF InList(stripped, VALID_COUNTRIES)
               THEN result = [country |-> stripped, was_corrected |-> FALSE]
               ELSE IF /\ Len(stripped) \in 2..3
                       /\ isalpha(stripped)
                       /\ upper(stripped) \in DOMAIN COUNTRY_CODES
               THEN result = [country |-> COUNTRY_CODES[upper(stripped)],
                              was_corrected |-> TRUE]
               ELSE IF lower(stripped) \in DOMAIN COUNTRY_VARIANTS
               THEN result = [country |-> COUNTRY_VARIANTS[lower(stripped)],
                              was_corrected |-> TRUE]
               ELSE IF \E k \in DOMAIN distance : distance[k] <= 2
               THEN /\ result.was_corrected
                    /\ \E k \in DOMAIN distance :
                          /\ result.country = VALID_COUNTRIES[k]
                          /\ \A j \in DOMAIN distance : distance[k] <= distance[j]
               ELSE result = [country |-> stripped, was_corrected |-> FALSE]
            /\ country = "France" =>
                   result = [country |-> "France", was_corrected |-> FALSE]
            /\ country \in {"FR", "Frence"} =>
                   result = [country |-> "France", was_corrected |-> TRUE]

\* an ISO code that is also within distance 2 of a canonical name ("de" and
\* "inde"): the code step decides
C20_Witness ==
    /\ Called("correct_country")
    /\ call.args.country = "DE"
    /\ CanonicalDistance["DE"][CHOOSE k \in DOMAIN VALID_COUNTRIES :
                                   VALID_COUNTRIES[k] = "Inde"] = 2
    /\ call.result = [country |-> "Allemagne", was_corrected |-> TRUE]

\* ------------------------------------------------------------------------
\* CSV generator (specification SpecCsv)
\* ------------------------------------------------------------------------

\* the lines of a text in which every line ends with "\n"
Lines(text) == SubSeq(split(text, "\n"), 1, Len(split(text, "\n")) - 1)

\* the data rows of a CSV text, each as the sequence of its fields (no field
\* of the model needs quoting)
DataRows(text) ==
    [k \in 1..(Len(Lines(text)) - 1) |-> split(Lines(text)[k + 1], ";")]

\* the page numbers of the forms of a batch, in batch order
FormPages(processed_pages) ==
    LET forms == studio_pages_of(processed_pages)
    IN  [k \in 1..Len(forms) |-> forms[k].page_number]

\* the name of each page of the model as _clean_simple leaves it
CleanedPageNames == <<"Alpha", "Bravo", "Charlie", "Delta">>

\* C21: for every batch of processed pages the CSV starts with the fixed
\* header row of 11 columns separated by ';' (also for an empty batch or one
\* with no form), followed by exactly one data row for each page whose
\* document type is the form, in batch order, and by no row for a page of
\* another type.
C21_HeaderAndRows ==
    Called("generate_studio_parfums_csv") =>
        LET pages == call.args.processed_pages
            text  == call.result
            rows  == DataRows(text)
            forms == {p \in 1..Len(pages) : pages[p].document_type = STUDIO_PARFUMS}
        IN  /\ startswith(text,
                   "identifiant;genre;nom;prenom;date;ville;pays;tel;email;profession;date_naissance\n")
            /\ text = "" \/ Char(text, Len(text)) = "\n"
            /\ Len(rows) = Cardinality(forms)
            /\ \A k \in 1..Len(rows) :
                  /\ Len(rows[k]) = 11
                  /\ \E p \in forms :
                        /\ Cardinality({q \in forms : q < p}) = k - 1
                        /\ rows[k][3] = CleanedPageNames[p]

\* a batch form, blank sheet, form: two rows, of the first and the third page
C21_Witness ==
    /\ Called("generate_studio_parfums_csv")
    /\ Len(call.args.processed_pages) = 3
    /\ FormPages(call.args.processed_pages) = <<1, 3>>
    /\ call.args.processed_pages[2].document_type = BLANK_SHEET
    /\ Len(DataRows(call.result)) = 2
    /\ DataRows(call.result)[1][3] = "Alpha"
    /\ DataRows(call.result)[2][3] = "Charlie"

\* a batch with no form: the header and nothing else
HeaderOnly ==
    (Called("generate_studio_parfums_csv")
        /\ studio_pages_of(call.args.processed_pages) = <<>>)
        => call.result =
               "identifiant;genre;nom;prenom;date;ville;pays;tel;email;profession;date_naissance\n"

\* ------------------------------------------------------------------------
\* CSV upload with no form (specification SpecBatch)
\* ------------------------------------------------------------------------

\* the CSV upload has answered
CsvAnswered == batch.endpoint = "upload-pdf-csv" /\ "response" \in DOMAIN batch

\* C22 as stated: when the CSV generated for an uploaded PDF holds the header
\* and no data row, the CSV upload answers not found (the 404 it raises is
\* what the caller receives, not a server error) and writes no CSV file.
C22_AsStated ==
    (CsvAnswered /\ DataRows(batch.csv_content) = <<>>) =>
        /\ batch.response.status_code = 404
        /\ batch.written = {}

\* the part of C22 about the file: no CSV file is written when there is no
\* data row
NoFileWithoutRows ==
    (CsvAnswered /\ DataRows(batch.csv_content) = <<>>) => batch.written = {}

\* a CSV with a data row is written and answered with status 200, unless the
\* write fails
FileWithRows ==
    (CsvAnswered /\ DataRows(batch.csv_content) # <<>>) =>
        \/ batch.response.status_code = 200 /\ batch.written = {batch.csv_content}
        \/ batch.response.status_code = 500 /\ batch.written = {}

\* ------------------------------------------------------------------------
\* Identifier back-fill and cleaning (specification SpecCsv)
\* ------------------------------------------------------------------------

\* the identifiers recovered from the forms of a batch: cleaned and of at
\* least 6 digits
RecoveredIdentifiers(forms) ==
    {c \in {clean_identifiant(get(forms[k].extracted_data, "identifiant")) :
                k \in 1..Len(forms)} : Len(c) >= 6}

\* the longest common prefix of a non-empty set of strings
LongestCommonPrefix(S) ==
    LET one == CHOOSE s \in S : TRUE
        n   == CHOOSE m \in 0..Len(one) :
                   /\ \A s \in S : startswith(s, SubSeq(one, 1, m))
                   /\ \A l \in (m + 1)..Len(one) :
                          \E s \in S : ~startswith(s, SubSeq(one, 1, l))
    IN  SubSeq(one, 1, n)

\* the identifier column of the rows of a batch when the prefix of the
\* back-fill is computed from the common prefix by Prefix
BackFilled(forms, rows, Prefix(_)) ==
    /\ Len(rows) = Len(forms)
    /\ \A k \in 1..Len(forms) :
          LET own       == clean_identifiant(get(forms[k].extracted_data, "identifiant"))
              recovered == RecoveredIdentifiers(forms)
          IN  IF own # "" THEN rows[k][1] = own
              ELSE IF recovered = {} THEN rows[k][1] = ""
              ELSE IF Cardinality(recovered) = 1
                      /\ Len(SelectSeq(forms, LAMBDA f :
                             Len(clean_identifiant(get(f.extracted_data, "identifiant"))) >= 6)) = 1
              THEN rows[k][1] = SubSeq(LongestCommonPrefix(recovered), 1, 6)
                                    \o format_03d(k)
              ELSE IF Len(LongestCommonPrefix(recovered)) >= 6
              THEN rows[k][1] = Prefix(LongestCommonPrefix(recovered)) \o format_03d(k)
              ELSE rows[k][1] = ""

WholePrefix(prefix) == prefix

SixDigits(prefix) == SubSeq(prefix, 1, 6)

\* the example of the claim: three forms of which only the second has an
\* identifier, "202201005"
ExampleBatch(processed_pages) ==
    /\ Len(processed_pages) = 3
    /\ \A p \in 1..3 : processed_pages[p].document_type = STUDIO_PARFUMS
    /\ processed_pages[1].extracted_data.identifiant = None
    /\ processed_pages[2].extracted_data.identifiant = "202201005"
    /\ processed_pages[3].extracted_data.identifiant = None

ExampleRows(rows) ==
    /\ Len(rows) = 3
    /\ rows[1][1] = "202201001"
    /\ rows[2][1] = "202201005"
    /\ rows[3][1] = "202201003"

\* C23 as stated: a form with no identifier, in a batch where another page
\* has a usable identifier, gets prefix + its position in three digits, the
\* prefix being the longest common prefix of all recovered identifiers
\* (at least 6 digits; the first 6 digits of the identifier when there is
\* only one); a page that has an identifier keeps it.
C23_AsStated ==
    Called("generate_studio_parfums_csv") =>
        /\ BackFilled(studio_pages_of(call.args.processed_pages),
                      DataRows(call.result), WholePrefix)
        /\ ExampleBatch(call.args.processed_pages) => ExampleRows(DataRows(call.result))

\* C23: a form with no identifier, in a batch where another form has an
\* identifier of at least 6 digits after cleaning, gets prefix + its position
\* among the forms in three digits, the prefix being the first 6 digits of
\* the longest common prefix of the recovered identifiers when that common
\* prefix has at least 6 digits (the first 6 digits of the identifier when
\* there is only one), and no identifier when it is shorter; a form that has
\* an identifier keeps it, cleaned.
C23_BackFill ==
    Called("generate_studio_parfums_csv") =>
        /\ BackFilled(studio_pages_of(call.args.processed_pages),
                      DataRows(call.result), SixDigits)
        /\ ExampleBatch(call.args.processed_pages) => ExampleRows(DataRows(call.result))

\* two identifiers with the common prefix "20220100" and a form without
\* identifier in third place: it gets "202201" + "003"
C23_Witness ==
    /\ Called("generate_studio_parfums_csv")
    /\ Len(call.args.processed_pages) = 3
    /\ \A p \in 1..3 : call.args.processed_pages[p].document_type = STUDIO_PARFUMS
    /\ call.args.processed_pages[1].extracted_data.identifiant = "202201005"
    /\ call.args.processed_pages[2].extracted_data.identifiant = "202201007"
    /\ call.args.processed_pages[3].extracted_data.identifiant = None
    /\ DataRows(call.result)[3][1] = "202201003"

\* the example of the claim is a batch of the model and gives the stated rows
ExampleReached ==
    /\ Called("generate_studio_parfums_csv")
    /\ ExampleBatch(call.args.processed_pages)
    /\ ExampleRows(DataRows(call.result))

\* C24: for every value, _clean_identifiant returns either an empty result
\* or a string of digits only that starts with "20" and has at most 9
\* characters; so every non-empty identifier that cleaning writes to a row
\* starts with "20".
C24_Canonical ==
    /\ Called("clean_identifiant") =>
           \/ call.result = ""
           \/ /\ \A i \in 1..Len(call.result) : Char(call.result, i) \in Digits
              /\ startswith(call.result, "20")
              /\ Len(call.result) <= 9
    /\ Called("generate_studio_parfums_csv") =>
           \A k \in 1..Len(DataRows(call.result)) :
               \/ DataRows(call.result)[k][1] = ""
               \/ startswith(DataRows(call.result)[k][1], "20")

\* a garbled identifier of 8 digits starting with "62": its first two digits
\* are replaced by "20"
C24_Witness ==
    /\ Called("clean_identifiant")
    /\ call.args.value = "62201005"
    /\ call.result = "20201005"

\* ------------------------------------------------------------------------
\* Data extractor (specification SpecExtract)
\* ------------------------------------------------------------------------

IsDigits(s) == \A i \in 1..Len(s) : Char(s, i) \in Digits

\* C25 as stated: the identifier extracted from a form is null or a string of
\* 8 to 10 digits that starts with "20", read from the first 5 lines only: a
\* run of 8 to 10 digits is accepted, leading zeros stripped, when it starts
\* with "20", rewritten to "20" + the remaining digits when it starts with
\* "6" (to "202" + the remaining digits when it starts with "62"); a pair
\* "DDDD DDDDD" is concatenated; any other run is ignored.
C25_AsStated ==
    Called("extract_identifiant") =>
        \/ call.result = None
        \/ /\ IsDigits(call.result)
           /\ startswith(call.result, "20")
           /\ Len(call.result) \in 8..10

\* the part of C25 that holds: the result is null or digits starting with "20"
IdentifiantStartsWith20 ==
    Called("extract_identifiant") =>
        \/ call.result = None
        \/ IsDigits(call.result) /\ startswith(call.result, "20")

\* the part of C25 about the lines: an identifier below the fifth line is not
\* read, one on the fifth line is
FirstFiveLines ==
    Called("extract_identifiant") =>
        /\ call.args.text = "a\nb\nc\nd\ne\n202201005" => call.result = None
        /\ call.args.text = "a\nb\nc\nd\n202201005" => call.result = "202201005"

\* every label of the forms: the synonyms of the fields and the labels that
\* end a value
AllLabels ==
    UNION {{field_names_of[f][k] : k \in 1..Len(field_names_of[f])} :
              f \in DOMAIN field_names_of}
        \cup {value_end_labels[k] : k \in 1..Len(value_end_labels)}

\* the name at position i of the line is a label of its own: it starts a
\* word and is not the end of a longer label ("name" in "First name")
WholeLabelAt(line, i, name) ==
    /\ BoundaryBefore(line, i)
    /\ word_at(line, i, name)
    /\ ~\E longer \in AllLabels :
          /\ Len(longer) > Len(name)
          /\ i - (Len(longer) - Len(name)) >= 1
          /\ word_at(line, i - (Len(longer) - Len(name)), longer)

\* the values that follow a whole label of the field in the text
ValuesOfWholeLabels(text, field) ==
    LET lines == split(text, "\n")
        names == field_names_of[field]
    IN  {field_value_of(field_match_at(lines[l], names[k], i)) :
            <<l, k, i>> \in
                {x \in (1..Len(lines)) \X (1..Len(names)) \X (1..Len(text)) :
                    /\ x[3] <= Len(lines[x[1]])
                    /\ WholeLabelAt(lines[x[1]], x[3], names[x[2]])
                    /\ field_match_at(lines[x[1]], names[x[2]], x[3]) # None}}

\* C26 as stated: the value returned for a field is taken only from a
\* "label:" whose label is one of the synonyms of that field as a whole label
\* (the last name never receives what follows "Prénom:", "Prenom:" or
\* "First name:", whatever the order of the lines), and the value ends at the
\* next field label or at the end of the line.
C26_AsStated ==
    (Called("extract_field_value") /\ call.result # None) =>
        /\ call.result \in ValuesOfWholeLabels(call.args.text, call.args.field)
        /\ ~Contains(call.result, ":")

\* C26 for every field but the last name
WholeLabelButNom ==
    (Called("extract_field_value") /\ call.args.field = "nom") \/ C26_AsStated

\* C26 for the last name when its label comes before the first-name label
NomLabelFirst ==
    (Called("extract_field_value") /\ call.args.field = "nom"
        /\ call.args.text \in {"Nom: Dupont\nPrénom: Jean",
                               "Last name: Smith\nFirst name: John",
                               "Nom: Dupont Prénom: Jean Tel: 06 12 34 56 78"})
        => C26_AsStated

\* ------------------------------------------------------------------------
\* Deduplication of the customers table under sequential use
\* ------------------------------------------------------------------------

\* no two rows of the table have the same non-empty value in the column
NoTwoRowsShare(table, column) ==
    \A a, b \in DOMAIN table :
        (a # b /\ Truthy(table[a][column])) => table[a][column] # table[b][column]

NoDuplicateEmail == NoTwoRowsShare(customers, "email")

NoDuplicatePhone == NoTwoRowsShare(customers, "phone")

\* the customers table as it was before the last ingestion
CustomersBeforeIngest == [id \in last.customers_before |-> customers[id]]

\* C27 as stated: from a store where no two customers share an email, after
\* any sequence of ingestions and transfers of review records, one after the
\* other, no two customers rows have the same non-empty email.
C27_AsStated == NoDuplicateEmail

\* the part of C27 about transfers: a transfer, whichever of its statements
\* fails, adds no second row with an email
TransferKeepsEmailsDistinct ==
    (last.op = "transfer" /\ NoTwoRowsShare(pre.customers, "email"))
        => NoDuplicateEmail

\* the part of C27 about ingestions whose email query is answered
IngestKeepsEmailsDistinct ==
    (/\ last.op = "ingest"
     /\ last.fault # "check_email"
     /\ NoTwoRowsShare(CustomersBeforeIngest, "email"))
        => NoDuplicateEmail

\* the ingestion that breaks C27: the email query fails, is answered False,
\* and the candidate is inserted beside the customer that has its email
EmailQueryFailedOpen ==
    /\ last.op = "ingest"
    /\ last.fault = "check_email"
    /\ last.email_exists
    /\ last.ret_type = "customer"
    /\ NoTwoRowsShare(CustomersBeforeIngest, "email")
    /\ ~NoDuplicateEmail

\* C28 as stated: from a store where no two customers share a phone, after
\* any sequence of ingestions and transfers of review records, one after the
\* other, the transfer of a "Doublon - Phone" or "Doublon - Mail et Phone"
\* record included, no two customers rows have the same non-empty phone.
C28_AsStated == NoDuplicatePhone

\* the last call transferred a record of the type, no statement failing
TransferredType(type) ==
    /\ last.op = "transfer"
    /\ last.fault = "none"
    /\ last.review_id \in DOMAIN pre.customers_review
    /\ pre.customers_review[last.review_id].type = type

\* the transfer that breaks C28: a "Doublon - Phone" record is promoted to a
\* new customer beside the customer that has its phone
PhoneDuplicatePromoted ==
    /\ TransferredType("Doublon - Phone")
    /\ last.path = "promote"
    /\ NoTwoRowsShare(pre.customers, "phone")
    /\ ~NoDuplicatePhone

\* the part of C28 that holds: a "Doublon - Mail et Phone" record is merged
\* into the customer that has its email and adds no row
MailEtPhoneIsMerged ==
    (TransferredType("Doublon - Mail et Phone")
        /\ NoTwoRowsShare(pre.customers, "phone"))
        => last.path = "merge" /\ customers = pre.customers

\* ------------------------------------------------------------------------
\* Concurrent transfers of one review record (specification SpecConcTransfer)
\* ------------------------------------------------------------------------

\* the customers rows the requests have inserted for the review record
CreatedCustomers ==
    {proc[w].created : w \in {v \in Workers : "created" \in DOMAIN proc[v]}}
        \ {NullId}

\* both requests have returned
BothReturned == \A w \in Workers : proc[w].pc = "done"

\* every file row references the same existing customer and no review record
FilesOfOneCustomer ==
    \E c \in DOMAIN customers :
        \A f \in DOMAIN customer_files :
            /\ customer_files[f].customer_id = c
            /\ customer_files[f].customer_review_id = NullId

\* C29 as stated: two concurrent transfers of one review record, whatever
\* the interleaving of their statements, create at most one customers row
\* for it, and once both have returned every file row of the review record
\* references one single existing customer.
C29_AsStated ==
    /\ Cardinality(CreatedCustomers) <= 1
    /\ BothReturned => FilesOfOneCustomer

\* the part of C29 about the files
FilesFollowOneCustomer == BothReturned => FilesOfOneCustomer

\* the part of C29 that holds when a customer has the email before either
\* request starts: both requests merge, no row is created with that email
MergeCreatesNoRow ==
    ~\E c \in CreatedCustomers, e \in DOMAIN customers \ CreatedCustomers :
        /\ Truthy(customers[c].email)
        /\ customers[c].email = customers[e].email

\* the interleaving that breaks C29: both requests have inserted a customer
TwoCustomersCreated == BothReturned /\ Cardinality(CreatedCustomers) = 2

\* ------------------------------------------------------------------------
\* Owners of the file attachments (specification SpecFiles)
\* ------------------------------------------------------------------------

\* the file row references one owner that exists: a customer or a review
\* record, not both
HasOneOwner(file) ==
    \/ /\ file.customer_id \in DOMAIN customers
       /\ file.customer_review_id = NullId
    \/ /\ file.customer_review_id \in DOMAIN customers_review
       /\ file.customer_id = NullId

\* C30 as stated: after any sequence of file creations, ingestions,
\* transfers, deletions of a review record and deletions of a customer,
\* every customer_files row references exactly one owner, an existing
\* customers row or an existing customers_review row, never both and never a
\* deleted record.
C30_AsStated == \A f \in DOMAIN customer_files : HasOneOwner(customer_files[f])

\* the part of C30 that holds: no file row references both a customer and a
\* review record
NeverBothOwners ==
    \A f \in DOMAIN customer_files :
        customer_files[f].customer_id = NullId
            \/ customer_files[f].customer_review_id = NullId

\* the deletion of a review record leaves its file rows behind
FileOfDeletedReview ==
    /\ last.op = "delete_customer_review"
    /\ last.status = 200
    /\ \E f \in DOMAIN customer_files :
          customer_files[f].customer_review_id = last.review_id

\* the deletion of a customer leaves its file rows behind
FileOfDeletedCustomer ==
    /\ last.op = "delete_customer"
    /\ last.status = 200
    /\ \E f \in DOMAIN customer_files :
          customer_files[f].customer_id = last.customer_id
====
